---- MODULE Spec2Model ----
(***************************************************************************)
(* Model of the four eviction-policy caches of serroba/cache:              *)
(*   lru   (src/lru/lru.go)      doubly linked list, most recent at head   *)
(*   fifo  (src/fifo/fifo.go)    doubly linked list, newest at head        *)
(*   clock (src/clock/clock.go)  ring of slots, hand, reference bits       *)
(*   slru  (src/slru/slru.go)    probation and protected lists             *)
(* Every public method runs under the cache's mutex (Lock / defer Unlock), *)
(* so one call is one atomic action of the sequential specifications.      *)
(* Heap nodes are records in a function from node ids to records; the      *)
(* index maps keys to node ids (LRU, FIFO, SLRU) or to ring slots (Clock). *)
(* A node that a call unlinks and drops from the index is garbage and is   *)
(* removed from the heap function.                                         *)
(***************************************************************************)
EXTENDS FiniteSets, Integers, Sequences, TLC

VARIABLES policy, lru, lruUse, fifo, fifoBorn, clock, slru, slruArgs,
          ratioArgs, ratioCaps, last, fault, mu, threads, atomic

vars == <<policy, lru, lruUse, fifo, fifoBorn, clock, slru, slruArgs,
          ratioArgs, ratioCaps, last, fault, mu, threads, atomic>>

(***************************************************************************)
(* Bounds of the model.                                                    *)
(***************************************************************************)
NumKeys == 3
MaxCap == 2

\* The goroutines that share a cache, and the keys they call it with.
NumThreads == 2
NumThreadKeys == 2

Keys == 1..NumKeys
Caps == 0..MaxCap

\* The value type is generic (V any): the code stores and returns values and
\* never inspects one, so two distinct non-zero values tell an old value from
\* a new one and a stored value from the zero value of a miss.
Vals == {1, 2}

\* Go's zero value of the value type, the nil pointer, the zero key.
Zero == 0
Nil == 0
NoKey == 0

EmptyMap == [x \in {} |-> 0]
Put(f, k, v) == [x \in DOMAIN f \cup {k} |-> IF x = k THEN v ELSE f[x]]
Drop(f, k) == [x \in DOMAIN f \ {k} |-> f[x]]

\* A fresh heap node for an entry of `key`.  The code never reads an address,
\* it only compares pointers for equality, so any unused id stands for the
\* address the allocator returns: the id is the key when that id is unused,
\* else the smallest unused id above the keys.
NewNode(nodes, key) ==
  IF key \notin DOMAIN nodes THEN key
  ELSE CHOOSE id \in (NumKeys + 1)..(NumKeys + 1 + Cardinality(DOMAIN nodes)) :
         /\ id \notin DOMAIN nodes
         /\ \A j \in (NumKeys + 1)..(id - 1) : j \in DOMAIN nodes

\* The keys of a list, read by following next from the node after `from`
\* until `to` is reached (at most fuel nodes).
RECURSIVE Walk(_, _, _, _)
Walk(nodes, from, to, fuel) ==
  IF from = to \/ from = Nil \/ from \notin DOMAIN nodes \/ fuel = 0 THEN <<>>
  ELSE <<nodes[from].key>> \o Walk(nodes, nodes[from].next, to, fuel - 1)

\* The record of the most recent call: its name, key, the value it was given
\* or returned, whether the key was found, the keys that left the cache other
\* than the key of a Delete, (SLRU) the keys that went from the protected to
\* the probation list, and (Clock) the keys whose reference bit the sweep
\* cleared, the slots the sweep looked at and the slots the free-slot search
\* looked at.
Call(op, key, value, found, evicted) ==
  [op |-> op, key |-> key, value |-> value, found |-> found,
   evicted |-> evicted, demoted |-> {}, cleared |-> {}, swept |-> 0, probed |-> 0]

NoCall == Call("New", NoKey, Zero, FALSE, {})

Range(seq) == {seq[i] : i \in 1..Len(seq)}

\* Ghost orders: move k to the front; keep only the keys in S.
Touch(seq, k) == <<k>> \o SelectSeq(seq, LAMBDA x : x # k)
Restrict(seq, S) == SelectSeq(seq, LAMBDA x : x \in S)

(***************************************************************************)
(* LRU                                                                     *)
(***************************************************************************)
LRU_head == -1
LRU_tail == -2

LRU_New(capacity) ==
  [capacity |-> capacity,
   items |-> EmptyMap,
   nodes |-> (LRU_head :> [key |-> NoKey, value |-> Zero, prev |-> Nil, next |-> LRU_tail])
          @@ (LRU_tail :> [key |-> NoKey, value |-> Zero, prev |-> LRU_head, next |-> Nil])]

\* Mutant of LRU_removeNode: node.next.prev = node.prev is missing, so the
\* node after n still points back at n.
LRU_removeNode_oneWay(nodes, n) ==
  [nodes EXCEPT ![nodes[n].prev].next = nodes[n].next]

LRU_removeNode(nodes, n) ==
  LET n1 == [nodes EXCEPT ![nodes[n].prev].next = nodes[n].next]
  IN [n1 EXCEPT ![n1[n].next].prev = n1[n].prev]

\* Mutant of LRU_addNodeToHead: the node is linked in before the tail.
LRU_addNodeToTail(nodes, n) ==
  LET n1 == [nodes EXCEPT ![n].prev = nodes[LRU_tail].prev]
      n2 == [n1 EXCEPT ![n].next = LRU_tail]
      n3 == [n2 EXCEPT ![n2[LRU_tail].prev].next = n]
  IN [n3 EXCEPT ![LRU_tail].prev = n]

LRU_addNodeToHead(nodes, n) ==
  LET n1 == [nodes EXCEPT ![n].next = nodes[LRU_head].next]
      n2 == [n1 EXCEPT ![n].prev = LRU_head]
      n3 == [n2 EXCEPT ![n2[LRU_head].next].prev = n]
  IN [n3 EXCEPT ![LRU_head].next = n]

LRU_moveToHead(nodes, n) == LRU_addNodeToHead(LRU_removeNode(nodes, n), n)

\* Mutant of LRU_over: the test is off by one.
LRU_over_lax(items, capacity) == Cardinality(DOMAIN items) > capacity + 1

\* uint64(len(c.items)) > c.capacity
LRU_over(items, capacity) == Cardinality(DOMAIN items) > capacity

\* Mutant of LRU_Set: the eviction runs before the insertion, on a cache that
\* is already full, and does nothing on an empty list (the order of FIFO).
LRU_Set_evictFirst(c, key, value) ==
  IF key \in DOMAIN c.items
  THEN LET n == c.items[key]
           n1 == [c.nodes EXCEPT ![n].value = value]
       IN [c EXCEPT !.nodes = LRU_moveToHead(n1, n)]
  ELSE LET victim == c.nodes[LRU_tail].prev
           evicts == Cardinality(DOMAIN c.items) >= c.capacity /\ victim # LRU_head
           items0 == IF evicts THEN Drop(c.items, c.nodes[victim].key) ELSE c.items
           nodes0 == IF evicts THEN Drop(LRU_removeNode(c.nodes, victim), victim)
                     ELSE c.nodes
           n == NewNode(nodes0, key)
           n1 == Put(nodes0, n, [key |-> key, value |-> value, prev |-> Nil, next |-> Nil])
       IN [c EXCEPT !.items = Put(items0, key, n), !.nodes = LRU_addNodeToHead(n1, n)]

LRU_Set(c, key, value) ==
  IF key \in DOMAIN c.items
  THEN LET n == c.items[key]
           n1 == [c.nodes EXCEPT ![n].value = value]
       IN [c EXCEPT !.nodes = LRU_moveToHead(n1, n)]
  ELSE LET n == NewNode(c.nodes, key)
           n1 == Put(c.nodes, n, [key |-> key, value |-> value, prev |-> Nil, next |-> Nil])
           items1 == Put(c.items, key, n)
           n2 == LRU_addNodeToHead(n1, n)
       IN IF LRU_over(items1, c.capacity)
          THEN LET victim == n2[LRU_tail].prev
                   n3 == LRU_removeNode(n2, victim)
               IN [c EXCEPT !.items = Drop(items1, n3[victim].key),
                            !.nodes = Drop(n3, victim)]
          ELSE [c EXCEPT !.items = items1, !.nodes = n2]

LRU_Get(c, key) ==
  IF key \in DOMAIN c.items
  THEN LET n == c.items[key]
       IN [cache |-> [c EXCEPT !.nodes = LRU_moveToHead(c.nodes, n)],
           value |-> c.nodes[n].value, found |-> TRUE]
  ELSE [cache |-> c, value |-> Zero, found |-> FALSE]

\* Mutant of LRU_Peek: a Peek that refreshes the entry the way Get does.
LRU_Peek_refreshing(c, key) == LRU_Get(c, key)

LRU_Peek(c, key) ==
  IF key \in DOMAIN c.items
  THEN [cache |-> c, value |-> c.nodes[c.items[key]].value, found |-> TRUE]
  ELSE [cache |-> c, value |-> Zero, found |-> FALSE]

\* Mutant of LRU_Delete: c.removeNode(node) is missing, so the node stays on
\* the list after its index entry is gone.
LRU_Delete_unlinked(c, key) ==
  IF key \in DOMAIN c.items
  THEN [cache |-> [c EXCEPT !.items = Drop(c.items, key)], found |-> TRUE]
  ELSE [cache |-> c, found |-> FALSE]

LRU_Delete(c, key) ==
  IF key \in DOMAIN c.items
  THEN LET n == c.items[key]
       IN [cache |-> [c EXCEPT !.items = Drop(c.items, key),
                               !.nodes = Drop(LRU_removeNode(c.nodes, n), n)],
           found |-> TRUE]
  ELSE [cache |-> c, found |-> FALSE]

LRU_Len(c) == Cardinality(DOMAIN c.items)

\* The keys on the list, most recently used first.
LRU_List(c) ==
  Walk(c.nodes, c.nodes[LRU_head].next, LRU_tail, Cardinality(DOMAIN c.nodes))

(***************************************************************************)
(* FIFO                                                                    *)
(***************************************************************************)
FIFO_head == -1
FIFO_tail == -2

FIFO_New(capacity) ==
  [capacity |-> capacity,
   items |-> EmptyMap,
   nodes |-> (FIFO_head :> [key |-> NoKey, value |-> Zero, prev |-> Nil, next |-> FIFO_tail])
          @@ (FIFO_tail :> [key |-> NoKey, value |-> Zero, prev |-> FIFO_head, next |-> Nil])]

FIFO_removeNode(nodes, n) ==
  LET n1 == [nodes EXCEPT ![nodes[n].prev].next = nodes[n].next]
  IN [n1 EXCEPT ![n1[n].next].prev = n1[n].prev]

FIFO_evict(c) ==
  LET oldest == c.nodes[FIFO_tail].prev
  IN IF oldest = FIFO_head THEN c
     ELSE [c EXCEPT !.items = Drop(c.items, c.nodes[oldest].key),
                    !.nodes = Drop(FIFO_removeNode(c.nodes, oldest), oldest)]

\* Mutant of FIFO_full: the test is off by one.
FIFO_full_lax(items, capacity) == Cardinality(DOMAIN items) > capacity

\* len(c.items) >= c.capacity
FIFO_full(items, capacity) == Cardinality(DOMAIN items) >= capacity

\* Mutant of FIFO_Set: an update moves the node to the head of the list, as
\* the update of LRU does.
FIFO_Set_moving(c, key, value) ==
  IF key \in DOMAIN c.items
  THEN LET n1 == [c.nodes EXCEPT ![c.items[key]].value = value]
       IN [c EXCEPT !.nodes = LRU_moveToHead(n1, c.items[key])]
  ELSE LET c1 == IF FIFO_full(c.items, c.capacity) THEN FIFO_evict(c) ELSE c
           n == NewNode(c1.nodes, key)
           n1 == Put(c1.nodes, n,
                     [key |-> key, value |-> value,
                      prev |-> FIFO_head, next |-> c1.nodes[FIFO_head].next])
           n2 == [n1 EXCEPT ![n1[FIFO_head].next].prev = n]
           n3 == [n2 EXCEPT ![FIFO_head].next = n]
       IN [c1 EXCEPT !.items = Put(c1.items, key, n), !.nodes = n3]

\* Mutant of FIFO_Set: the entry is inserted first and the oldest entry is
\* evicted when the cache then holds more than capacity (the order of LRU).
FIFO_Set_insertFirst(c, key, value) ==
  IF key \in DOMAIN c.items
  THEN [c EXCEPT !.nodes[c.items[key]].value = value]
  ELSE LET n == NewNode(c.nodes, key)
           n1 == Put(c.nodes, n,
                     [key |-> key, value |-> value,
                      prev |-> FIFO_head, next |-> c.nodes[FIFO_head].next])
           n2 == [n1 EXCEPT ![n1[FIFO_head].next].prev = n]
           n3 == [n2 EXCEPT ![FIFO_head].next = n]
           c1 == [c EXCEPT !.items = Put(c.items, key, n), !.nodes = n3]
       IN IF Cardinality(DOMAIN c1.items) > c.capacity THEN FIFO_evict(c1) ELSE c1

FIFO_Set(c, key, value) ==
  IF key \in DOMAIN c.items
  THEN [c EXCEPT !.nodes[c.items[key]].value = value]
  ELSE LET c1 == IF FIFO_full(c.items, c.capacity) THEN FIFO_evict(c) ELSE c
           n == NewNode(c1.nodes, key)
           n1 == Put(c1.nodes, n,
                     [key |-> key, value |-> value,
                      prev |-> FIFO_head, next |-> c1.nodes[FIFO_head].next])
           n2 == [n1 EXCEPT ![n1[FIFO_head].next].prev = n]
           n3 == [n2 EXCEPT ![FIFO_head].next = n]
       IN [c1 EXCEPT !.items = Put(c1.items, key, n), !.nodes = n3]

\* Mutant of FIFO_Get: a Get that moves the entry to the head, as in LRU.
FIFO_Get_moving(c, key) ==
  IF key \notin DOMAIN c.items
  THEN [cache |-> c, value |-> Zero, found |-> FALSE]
  ELSE [cache |-> [c EXCEPT !.nodes = LRU_moveToHead(c.nodes, c.items[key])],
        value |-> c.nodes[c.items[key]].value, found |-> TRUE]

FIFO_Get(c, key) ==
  IF key \notin DOMAIN c.items
  THEN [cache |-> c, value |-> Zero, found |-> FALSE]
  ELSE [cache |-> c, value |-> c.nodes[c.items[key]].value, found |-> TRUE]

FIFO_Peek(c, key) == FIFO_Get(c, key)

FIFO_Delete(c, key) ==
  IF key \notin DOMAIN c.items
  THEN [cache |-> c, found |-> FALSE]
  ELSE LET n == c.items[key]
       IN [cache |-> [c EXCEPT !.items = Drop(c.items, key),
                               !.nodes = Drop(FIFO_removeNode(c.nodes, n), n)],
           found |-> TRUE]

FIFO_Len(c) == Cardinality(DOMAIN c.items)

\* The keys on the list, newest first.
FIFO_List(c) ==
  Walk(c.nodes, c.nodes[FIFO_head].next, FIFO_tail, Cardinality(DOMAIN c.nodes))

(***************************************************************************)
(* Clock                                                                   *)
(* A ring slot holds NilEntry (a nil pointer) or an entry.  Reading        *)
(* ring[hand] outside the ring, reading a field of a nil entry and a       *)
(* remainder by zero are runtime panics; a loop that cannot end hangs.     *)
(***************************************************************************)
NilEntry == [nil |-> TRUE, key |-> NoKey, value |-> Zero, referenced |-> FALSE]
Entry(key, value, referenced) ==
  [nil |-> FALSE, key |-> key, value |-> value, referenced |-> referenced]

Clock_New(capacity) ==
  [items |-> EmptyMap,
   ring |-> [i \in 0..(capacity - 1) |-> NilEntry],
   hand |-> 0,
   capacity |-> capacity,
   size |-> 0]

\* The outcome of an internal step: the cache, how it ended ("ok", "panic",
\* "hang"), the slot returned (findEmptySlot), the number of slots the sweep
\* and the free-slot search looked at, and the keys whose reference bit was
\* cleared.
Outcome(c, end, idx, swept, probed, cleared) ==
  [cache |-> c, end |-> end, idx |-> idx, swept |-> swept, probed |-> probed,
   cleared |-> cleared]

\* Mutant of Clock_advanceHand: the hand is incremented without the
\* reduction modulo the capacity.
Clock_advanceHand_unwrapped(c) ==
  IF c.capacity = 0 THEN Outcome(c, "panic", 0, 0, 0, {})
  ELSE Outcome([c EXCEPT !.hand = c.hand + 1], "ok", 0, 0, 0, {})

Clock_advanceHand(c) ==
  IF c.capacity = 0 THEN Outcome(c, "panic", 0, 0, 0, {})
  ELSE Outcome([c EXCEPT !.hand = (c.hand + 1) % c.capacity], "ok", 0, 0, 0, {})

RECURSIVE Clock_evictLoop(_, _, _)
Clock_evictLoop(c, swept, cleared) ==
  IF c.hand \notin DOMAIN c.ring THEN Outcome(c, "panic", 0, swept, 0, cleared)
  ELSE LET e == c.ring[c.hand]
       IN IF e.nil THEN Outcome(c, "panic", 0, swept + 1, 0, cleared)
          ELSE IF e.referenced
          THEN LET c1 == [c EXCEPT !.ring[c.hand].referenced = FALSE]
                   a == Clock_advanceHand(c1)
               IN IF a.end # "ok"
                  THEN Outcome(a.cache, a.end, 0, swept + 1, 0, cleared \cup {e.key})
                  ELSE Clock_evictLoop(a.cache, swept + 1, cleared \cup {e.key})
          ELSE Outcome([c EXCEPT !.items = Drop(c.items, e.key),
                                 !.ring[c.hand] = NilEntry,
                                 !.size = c.size - 1],
                       "ok", 0, swept + 1, 0, cleared)

\* Mutant of Clock_evict: delete(c.items, e.key) is missing, so the index
\* keeps the evicted key.
Clock_evict_keepsIndex(c) ==
  LET r == Clock_evictLoop(c, 0, {})
  IN [r EXCEPT !.cache.items = c.items]

\* Mutant of Clock_evict: e.referenced = false is missing, so the sweep
\* passes the referenced entries without clearing them and never ends when
\* every entry is referenced.
Clock_evict_sticky(c) ==
  IF c.hand \notin DOMAIN c.ring \/ \E i \in DOMAIN c.ring : c.ring[i].nil
  THEN Clock_evictLoop(c, 0, {})
  ELSE IF \A i \in DOMAIN c.ring : c.ring[i].referenced
  THEN Outcome(c, "hang", 0, c.capacity, 0, {})
  ELSE LET d == CHOOSE j \in 0..(c.capacity - 1) :
                  /\ ~c.ring[(c.hand + j) % c.capacity].referenced
                  /\ \A i \in 0..(j - 1) : c.ring[(c.hand + i) % c.capacity].referenced
           s == (c.hand + d) % c.capacity
       IN Outcome([c EXCEPT !.items = Drop(c.items, c.ring[s].key),
                            !.ring[s] = NilEntry,
                            !.size = c.size - 1,
                            !.hand = s],
                  "ok", 0, d + 1, 0, {})

\* Mutant of Clock_evict: the sweep forgets to decrement size.
Clock_evict_keepsSize(c) ==
  LET r == Clock_evictLoop(c, 0, {})
  IN [r EXCEPT !.cache.size = c.size]

\* Mutant of Clock_evict: no second chance, the entry under the hand is
\* evicted whatever its reference bit.
Clock_evict_first(c) ==
  IF c.hand \notin DOMAIN c.ring \/ c.ring[c.hand].nil
  THEN Outcome(c, "panic", 0, 1, 0, {})
  ELSE Outcome([c EXCEPT !.items = Drop(c.items, c.ring[c.hand].key),
                         !.ring[c.hand] = NilEntry,
                         !.size = c.size - 1],
               "ok", 0, 1, 0, {})

Clock_evict(c) == Clock_evictLoop(c, 0, {})

RECURSIVE Clock_findLoop(_, _)
Clock_findLoop(c, probed) ==
  IF c.hand \notin DOMAIN c.ring THEN Outcome(c, "panic", 0, 0, probed, {})
  ELSE IF probed >= c.capacity /\ \A i \in DOMAIN c.ring : ~c.ring[i].nil
  THEN Outcome(c, "hang", 0, 0, probed, {})
  ELSE IF c.ring[c.hand].nil
  THEN LET a == Clock_advanceHand(c)
       IN Outcome(a.cache, a.end, c.hand, 0, probed + 1, {})
  ELSE LET a == Clock_advanceHand(c)
       IN IF a.end # "ok" THEN Outcome(a.cache, a.end, 0, 0, probed + 1, {})
          ELSE Clock_findLoop(a.cache, probed + 1)

\* Mutant of Clock_findEmptySlot: the search clears the reference bit of
\* every occupied slot it passes, as the eviction sweep does.
Clock_findEmptySlot_clearing(c) ==
  LET r == Clock_findLoop(c, 0)
      passed == {(c.hand + j) % c.capacity : j \in 0..(r.probed - 2)}
  IN IF r.end # "ok" THEN r
     ELSE [r EXCEPT !.cache.ring =
             [i \in DOMAIN r.cache.ring |->
                IF i \in passed THEN [r.cache.ring[i] EXCEPT !.referenced = FALSE]
                ELSE r.cache.ring[i]]]

\* Mutant of Clock_findEmptySlot: the hand is left on the slot returned
\* (the advanceHand before the return is missing).
Clock_findEmptySlot_staying(c) ==
  LET r == Clock_findLoop(c, 0)
  IN IF r.end = "ok" THEN [r EXCEPT !.cache.hand = r.idx] ELSE r

Clock_findEmptySlot(c) == Clock_findLoop(c, 0)

\* Mutant of Clock_Set: the eviction guard is off by one, so the sweep
\* already runs when one slot is still empty.
Clock_Set_evictEarly(c, key, value) ==
  IF key \in DOMAIN c.items
  THEN LET idx == c.items[key]
       IN Outcome([c EXCEPT !.ring[idx].value = value, !.ring[idx].referenced = TRUE],
                  "ok", idx, 0, 0, {})
  ELSE LET ev == IF c.size + 1 >= c.capacity THEN Clock_evict(c)
                 ELSE Outcome(c, "ok", 0, 0, 0, {})
       IN IF ev.end # "ok" THEN ev
          ELSE LET f == Clock_findEmptySlot(ev.cache)
               IN IF f.end # "ok"
                  THEN Outcome(f.cache, f.end, 0, ev.swept, f.probed, ev.cleared)
                  ELSE Outcome([f.cache EXCEPT !.ring[f.idx] = Entry(key, value, FALSE),
                                               !.items = Put(f.cache.items, key, f.idx),
                                               !.size = f.cache.size + 1],
                               "ok", f.idx, ev.swept, f.probed, ev.cleared)

Clock_Set(c, key, value) ==
  IF key \in DOMAIN c.items
  THEN LET idx == c.items[key]
       IN Outcome([c EXCEPT !.ring[idx].value = value, !.ring[idx].referenced = TRUE],
                  "ok", idx, 0, 0, {})
  ELSE LET ev == IF c.size >= c.capacity THEN Clock_evict(c)
                 ELSE Outcome(c, "ok", 0, 0, 0, {})
       IN IF ev.end # "ok" THEN ev
          ELSE LET f == Clock_findEmptySlot(ev.cache)
               IN IF f.end # "ok"
                  THEN Outcome(f.cache, f.end, 0, ev.swept, f.probed, ev.cleared)
                  ELSE Outcome([f.cache EXCEPT !.ring[f.idx] = Entry(key, value, FALSE),
                                               !.items = Put(f.cache.items, key, f.idx),
                                               !.size = f.cache.size + 1],
                               "ok", f.idx, ev.swept, f.probed, ev.cleared)

\* Mutant of Clock_Get: a hit also moves the hand on, as an insertion does.
Clock_Get_advancing(c, key) ==
  IF key \notin DOMAIN c.items
  THEN [cache |-> c, value |-> Zero, found |-> FALSE]
  ELSE LET idx == c.items[key]
       IN [cache |-> [c EXCEPT !.ring[idx].referenced = TRUE,
                               !.hand = (c.hand + 1) % c.capacity],
           value |-> c.ring[idx].value, found |-> TRUE]

Clock_Get(c, key) ==
  IF key \notin DOMAIN c.items
  THEN [cache |-> c, value |-> Zero, found |-> FALSE]
  ELSE LET idx == c.items[key]
       IN [cache |-> [c EXCEPT !.ring[idx].referenced = TRUE],
           value |-> c.ring[idx].value, found |-> TRUE]

\* Mutant of Clock_Peek: a Peek that sets the reference bit the way Get does.
Clock_Peek_referencing(c, key) == Clock_Get(c, key)

Clock_Peek(c, key) ==
  IF key \notin DOMAIN c.items
  THEN [cache |-> c, value |-> Zero, found |-> FALSE]
  ELSE [cache |-> c, value |-> c.ring[c.items[key]].value, found |-> TRUE]

\* Mutant of Clock_Delete: the ring slot is not cleared (c.ring[idx] = nil is
\* missing), so the ring keeps an entry the size counter no longer counts.
Clock_Delete_keepsSlot(c, key) ==
  IF key \notin DOMAIN c.items
  THEN [cache |-> c, found |-> FALSE]
  ELSE [cache |-> [c EXCEPT !.items = Drop(c.items, key),
                            !.size = c.size - 1],
        found |-> TRUE]

\* Mutant of Clock_Delete: the size counter is not decremented.
Clock_Delete_keepsSize(c, key) ==
  IF key \notin DOMAIN c.items
  THEN [cache |-> c, found |-> FALSE]
  ELSE [cache |-> [c EXCEPT !.ring[c.items[key]] = NilEntry,
                            !.items = Drop(c.items, key)],
        found |-> TRUE]

Clock_Delete(c, key) ==
  IF key \notin DOMAIN c.items
  THEN [cache |-> c, found |-> FALSE]
  ELSE [cache |-> [c EXCEPT !.ring[c.items[key]] = NilEntry,
                            !.items = Drop(c.items, key),
                            !.size = c.size - 1],
        found |-> TRUE]

Clock_Len(c) == c.size

(***************************************************************************)
(* SLRU                                                                    *)
(* capacity is a uint64 and protectedPercent a uint8.  The model keeps the *)
(* wrap-around of the unsigned arithmetic at a width of WordBits bits.     *)
(***************************************************************************)
WordBits == 10
Word == 2 ^ WordBits
MaxPercent == 255

probation == 0
protected == 1

SLRU_probationHead == -1
SLRU_probationTail == -2
SLRU_protectedHead == -3
SLRU_protectedTail == -4

\* Mutant of SLRU_Caps: a segment capacity of 0 is kept as it is instead of
\* being raised to 1.
SLRU_Caps_unfloored(capacity, protectedPercent) ==
  LET pct == IF protectedPercent > 100 THEN 100 ELSE protectedPercent
      protectedCap == ((capacity * pct) % Word) \div 100
      probationCap == (capacity - protectedCap) % Word
  IN [protectedCap |-> protectedCap, probationCap |-> probationCap]

\* The two segment capacities NewWithRatio computes.
SLRU_Caps(capacity, protectedPercent) ==
  LET pct == IF protectedPercent > 100 THEN 100 ELSE protectedPercent
      protectedCap == ((capacity * pct) % Word) \div 100
      probationCap == (capacity - protectedCap) % Word
  IN [protectedCap |-> IF protectedCap = 0 THEN 1 ELSE protectedCap,
      probationCap |-> IF probationCap = 0 THEN 1 ELSE probationCap]

SLRU_Sentinel(seg, prev, next) ==
  [key |-> NoKey, value |-> Zero, segment |-> seg, prev |-> prev, next |-> next]

SLRU_NewWithRatio(capacity, protectedPercent) ==
  LET caps == SLRU_Caps(capacity, protectedPercent)
  IN [items |-> EmptyMap,
      nodes |-> (SLRU_probationHead :> SLRU_Sentinel(probation, Nil, SLRU_probationTail))
             @@ (SLRU_probationTail :> SLRU_Sentinel(probation, SLRU_probationHead, Nil))
             @@ (SLRU_protectedHead :> SLRU_Sentinel(protected, Nil, SLRU_protectedTail))
             @@ (SLRU_protectedTail :> SLRU_Sentinel(protected, SLRU_protectedHead, Nil)),
      probationCap |-> caps.probationCap,
      protectedCap |-> caps.protectedCap,
      probationLen |-> 0,
      protectedLen |-> 0]

SLRU_New(capacity) == SLRU_NewWithRatio(capacity, 80)

SLRU_removeNode(nodes, n) ==
  LET n1 == [nodes EXCEPT ![nodes[n].prev].next = nodes[n].next]
  IN [n1 EXCEPT ![n1[n].next].prev = n1[n].prev]

SLRU_addToHead(nodes, n, seg) ==
  LET head == IF seg = probation THEN SLRU_probationHead ELSE SLRU_protectedHead
      n1 == [nodes EXCEPT ![n].next = nodes[head].next]
      n2 == [n1 EXCEPT ![n].prev = head]
      n3 == [n2 EXCEPT ![n2[head].next].prev = n]
  IN [n3 EXCEPT ![head].next = n]

SLRU_moveToHead(nodes, n) ==
  LET n1 == SLRU_removeNode(nodes, n)
  IN SLRU_addToHead(n1, n, n1[n].segment)

\* Mutant of SLRU_evictFromProbation: the victim is taken from the tail of
\* the protected list when there is one.
SLRU_evictFromProtected(c) ==
  LET fromProtected == c.nodes[SLRU_protectedTail].prev # SLRU_protectedHead
      victim == IF fromProtected THEN c.nodes[SLRU_protectedTail].prev
                ELSE c.nodes[SLRU_probationTail].prev
      n1 == SLRU_removeNode(c.nodes, victim)
  IN [c EXCEPT !.nodes = Drop(n1, victim),
               !.probationLen = IF fromProtected THEN @ ELSE (@ - 1) % Word,
               !.protectedLen = IF fromProtected THEN (@ - 1) % Word ELSE @,
               !.items = Drop(c.items, n1[victim].key)]

\* Mutant of SLRU_evictFromProbation: the victim is taken from the head of
\* the probation list, the entry most recently put there.
SLRU_evictFromProbation_newest(c) ==
  LET victim == c.nodes[SLRU_probationHead].next
      n1 == SLRU_removeNode(c.nodes, victim)
  IN [c EXCEPT !.nodes = Drop(n1, victim),
               !.probationLen = (c.probationLen - 1) % Word,
               !.items = Drop(c.items, n1[victim].key)]

SLRU_evictFromProbation(c) ==
  LET victim == c.nodes[SLRU_probationTail].prev
      n1 == SLRU_removeNode(c.nodes, victim)
  IN [c EXCEPT !.nodes = Drop(n1, victim),
               !.probationLen = (c.probationLen - 1) % Word,
               !.items = Drop(c.items, n1[victim].key)]

\* Mutant of SLRU_demoteLRU: after the demotion the probation list is trimmed
\* as soon as it is full (>= for >), so the Get evicts.
SLRU_demoteLRU_evicting(c) ==
  LET victim == c.nodes[SLRU_protectedTail].prev
      n1 == SLRU_removeNode(c.nodes, victim)
      n2 == [n1 EXCEPT ![victim].segment = probation]
      c1 == [c EXCEPT !.nodes = SLRU_addToHead(n2, victim, probation),
                      !.protectedLen = (c.protectedLen - 1) % Word,
                      !.probationLen = (c.probationLen + 1) % Word]
  IN IF c1.probationLen >= c1.probationCap THEN SLRU_evictFromProbation(c1) ELSE c1

\* Mutant of SLRU_demoteLRU: the entry at the head of the protected list,
\* the one just promoted, is the one demoted.
SLRU_demoteMRU(c) ==
  LET victim == c.nodes[SLRU_protectedHead].next
      n1 == SLRU_removeNode(c.nodes, victim)
      n2 == [n1 EXCEPT ![victim].segment = probation]
  IN [c EXCEPT !.nodes = SLRU_addToHead(n2, victim, probation),
               !.protectedLen = (c.protectedLen - 1) % Word,
               !.probationLen = (c.probationLen + 1) % Word]

SLRU_demoteLRU(c) ==
  LET victim == c.nodes[SLRU_protectedTail].prev
      n1 == SLRU_removeNode(c.nodes, victim)
      n2 == [n1 EXCEPT ![victim].segment = probation]
  IN [c EXCEPT !.nodes = SLRU_addToHead(n2, victim, probation),
               !.protectedLen = (c.protectedLen - 1) % Word,
               !.probationLen = (c.probationLen + 1) % Word]

\* Mutant of SLRU_protectedOver: the test is off by one.
SLRU_protectedOver_lax(c) == c.protectedLen > c.protectedCap + 1

\* c.protectedLen > c.protectedCap
SLRU_protectedOver(c) == c.protectedLen > c.protectedCap

\* Mutant of SLRU_probationOver: the probation list is trimmed as soon as it
\* is full (>= for >).
SLRU_probationOver_eager(c) == c.probationLen >= c.probationCap

\* c.probationLen > c.probationCap
SLRU_probationOver(c) == c.probationLen > c.probationCap

\* Mutant of SLRU_promote: c.probationLen-- is missing, so the demotion that
\* follows counts one entry more on the probation list than it holds.
SLRU_promote_keepsLen(c, n) ==
  LET n1 == SLRU_removeNode(c.nodes, n)
      n2 == [n1 EXCEPT ![n].segment = protected]
      c1 == [c EXCEPT !.nodes = SLRU_addToHead(n2, n, protected),
                      !.protectedLen = (c.protectedLen + 1) % Word]
  IN IF SLRU_protectedOver(c1) THEN SLRU_demoteLRU(c1) ELSE c1

SLRU_promote(c, n) ==
  LET n1 == SLRU_removeNode(c.nodes, n)
      n2 == [n1 EXCEPT ![n].segment = protected]
      c1 == [c EXCEPT !.nodes = SLRU_addToHead(n2, n, protected),
                      !.probationLen = (c.probationLen - 1) % Word,
                      !.protectedLen = (c.protectedLen + 1) % Word]
  IN IF SLRU_protectedOver(c1) THEN SLRU_demoteLRU(c1) ELSE c1

\* Mutant of SLRU_Set: a Set of a present key counts as a use, so it promotes
\* a probation entry the way Get does.
SLRU_Set_promoting(c, key, value) ==
  IF key \in DOMAIN c.items
  THEN LET n == c.items[key]
           c1 == [c EXCEPT !.nodes[n].value = value]
       IN IF c1.nodes[n].segment = probation
          THEN LET n1 == SLRU_removeNode(c1.nodes, n)
                   n2 == [n1 EXCEPT ![n].segment = protected]
               IN [c1 EXCEPT !.nodes = SLRU_addToHead(n2, n, protected),
                             !.probationLen = (c.probationLen - 1) % Word,
                             !.protectedLen = (c.protectedLen + 1) % Word]
          ELSE [c1 EXCEPT !.nodes = SLRU_moveToHead(c1.nodes, n)]
  ELSE LET n == NewNode(c.nodes, key)
           n1 == Put(c.nodes, n,
                     [key |-> key, value |-> value, segment |-> probation,
                      prev |-> Nil, next |-> Nil])
           c1 == [c EXCEPT !.items = Put(c.items, key, n),
                           !.nodes = SLRU_addToHead(n1, n, probation),
                           !.probationLen = (c.probationLen + 1) % Word]
       IN IF c1.probationLen > c1.probationCap THEN SLRU_evictFromProbation(c1) ELSE c1

SLRU_Set(c, key, value) ==
  IF key \in DOMAIN c.items
  THEN LET n == c.items[key]
           n1 == [c.nodes EXCEPT ![n].value = value]
       IN [c EXCEPT !.nodes = SLRU_moveToHead(n1, n)]
  ELSE LET n == NewNode(c.nodes, key)
           n1 == Put(c.nodes, n,
                     [key |-> key, value |-> value, segment |-> probation,
                      prev |-> Nil, next |-> Nil])
           c1 == [c EXCEPT !.items = Put(c.items, key, n),
                           !.nodes = SLRU_addToHead(n1, n, probation),
                           !.probationLen = (c.probationLen + 1) % Word]
       IN IF SLRU_probationOver(c1) THEN SLRU_evictFromProbation(c1) ELSE c1

\* Mutant of SLRU_Get: a miss creates an entry holding the zero value.
SLRU_Get_creating(c, key) ==
  IF key \notin DOMAIN c.items
  THEN [cache |-> SLRU_Set(c, key, Zero), value |-> Zero, found |-> FALSE]
  ELSE LET n == c.items[key]
           c1 == IF c.nodes[n].segment = probation
                 THEN SLRU_promote(c, n)
                 ELSE [c EXCEPT !.nodes = SLRU_moveToHead(c.nodes, n)]
       IN [cache |-> c1, value |-> c1.nodes[n].value, found |-> TRUE]

SLRU_Get(c, key) ==
  IF key \notin DOMAIN c.items
  THEN [cache |-> c, value |-> Zero, found |-> FALSE]
  ELSE LET n == c.items[key]
           c1 == IF c.nodes[n].segment = probation
                 THEN SLRU_promote(c, n)
                 ELSE [c EXCEPT !.nodes = SLRU_moveToHead(c.nodes, n)]
       IN [cache |-> c1, value |-> c1.nodes[n].value, found |-> TRUE]

SLRU_Peek(c, key) ==
  IF key \in DOMAIN c.items
  THEN [cache |-> c, value |-> c.nodes[c.items[key]].value, found |-> TRUE]
  ELSE [cache |-> c, value |-> Zero, found |-> FALSE]

\* Mutant of SLRU_Delete: the segment of the node is not looked at and
\* probationLen is decremented for every deleted node.
SLRU_Delete_probationOnly(c, key) ==
  IF key \notin DOMAIN c.items
  THEN [cache |-> c, found |-> FALSE]
  ELSE LET n == c.items[key]
           n1 == SLRU_removeNode(c.nodes, n)
       IN [cache |-> [c EXCEPT !.nodes = Drop(n1, n), !.items = Drop(c.items, key),
                               !.probationLen = (c.probationLen - 1) % Word],
           found |-> TRUE]

SLRU_Delete(c, key) ==
  IF key \notin DOMAIN c.items
  THEN [cache |-> c, found |-> FALSE]
  ELSE LET n == c.items[key]
           n1 == SLRU_removeNode(c.nodes, n)
           c1 == IF n1[n].segment = probation
                 THEN [c EXCEPT !.probationLen = (c.probationLen - 1) % Word]
                 ELSE [c EXCEPT !.protectedLen = (c.protectedLen - 1) % Word]
       IN [cache |-> [c1 EXCEPT !.nodes = Drop(n1, n), !.items = Drop(c.items, key)],
           found |-> TRUE]

SLRU_Len(c) == Cardinality(DOMAIN c.items)

\* The keys of each segment's list, most recently used first.
SLRU_Probation(c) ==
  Walk(c.nodes, c.nodes[SLRU_probationHead].next, SLRU_probationTail,
       Cardinality(DOMAIN c.nodes))
SLRU_Protected(c) ==
  Walk(c.nodes, c.nodes[SLRU_protectedHead].next, SLRU_protectedTail,
       Cardinality(DOMAIN c.nodes))

\* The keys on the protected list and on the probation list.
ProtectedKeys(c) == Range(SLRU_Protected(c))
ProbationKeys(c) == Range(SLRU_Probation(c))

(***************************************************************************)
(* Specifications: one per policy, each the cache under any sequence of    *)
(* calls, for every capacity in Caps.  policy names the package the cache  *)
(* under test was constructed from; the variables of the other policies    *)
(* stay at their idle values.                                              *)
(***************************************************************************)
lruVars == <<lru, lruUse>>
fifoVars == <<fifo, fifoBorn>>
clockVars == <<clock>>
slruVars == <<slru, slruArgs>>
ratioVars == <<ratioArgs, ratioCaps>>
threadVars == <<mu, threads, atomic>>

\* What a call on one policy's cache leaves alone.
lruFrame == <<policy, fifoVars, clockVars, slruVars, ratioVars, fault, threadVars>>
fifoFrame == <<policy, lruVars, clockVars, slruVars, ratioVars, fault, threadVars>>
clockFrame == <<policy, lruVars, fifoVars, slruVars, ratioVars, threadVars>>
slruFrame == <<policy, lruVars, fifoVars, clockVars, ratioVars, fault, threadVars>>

NoCaps == [built |-> FALSE, protectedCap |-> 0, probationCap |-> 0]

LRUIdle == lru = LRU_New(0) /\ lruUse = <<>>
FIFOIdle == fifo = FIFO_New(0) /\ fifoBorn = <<>>
ClockIdle == clock = Clock_New(0)
SLRUIdle ==
  /\ slruArgs = [capacity |-> 0, protectedPercent |-> 0]
  /\ slru = SLRU_NewWithRatio(0, 0)
RatioIdle ==
  /\ ratioArgs = [capacity |-> 0, protectedPercent |-> 0]
  /\ ratioCaps = NoCaps

\* The cache under test.
Cache ==
  CASE policy = "lru" -> lru [] policy = "fifo" -> fifo
    [] policy = "clock" -> clock [] OTHER -> slru

\* The goroutines that call the cache, the unlocked state of its sync.Mutex
\* (mu holds the goroutine that has it locked), and a goroutine that is in
\* no call.  A goroutine in a call keeps the instructions it has left (todo),
\* the method and its arguments, what the index lookup gave it (seen), and
\* what the call returns (ret) next to what the same call returns when the
\* calls run one at a time (want).
Threads == 1..NumThreads
Free == 0
IdleThread ==
  [todo |-> <<>>, op |-> "none", key |-> NoKey, value |-> Zero,
   seen |-> [found |-> FALSE, at |-> Nil],
   ret |-> [value |-> Zero, found |-> FALSE],
   want |-> [value |-> Zero, found |-> FALSE]]

\* No goroutine is in a call; atomic is the cache the calls made so far give
\* when each runs alone, in the order in which they took effect.
ThreadsIdle ==
  /\ mu = Free
  /\ threads = [t \in Threads |-> IdleThread]
  /\ atomic = Cache

\* The keys that left the index during a call.
Gone(before, after) == DOMAIN before \ DOMAIN after

(***************************************************************************)
(* LRU.  lruUse is the order of the stored keys by their most recent Set   *)
(* or Get, most recent first; it is kept from the calls alone, not from    *)
(* the list.                                                               *)
(***************************************************************************)
InitLRU ==
  /\ policy = "lru"
  /\ \E cap \in Caps : lru = LRU_New(cap)
  /\ lruUse = <<>>
  /\ FIFOIdle /\ ClockIdle /\ SLRUIdle /\ RatioIdle
  /\ last = NoCall
  /\ fault = "ok"
  /\ ThreadsIdle

LRUSet(k, v) ==
  /\ policy = "lru"
  /\ lru' = LRU_Set(lru, k, v)
  /\ lruUse' = Restrict(Touch(lruUse, k), DOMAIN lru'.items)
  /\ last' = Call("Set", k, v, k \in DOMAIN lru.items,
                  (DOMAIN lru.items \cup {k}) \ DOMAIN lru'.items)
  /\ UNCHANGED lruFrame

LRUGet(k) ==
  LET r == LRU_Get(lru, k)
  IN /\ policy = "lru"
     /\ lru' = r.cache
     /\ lruUse' = IF r.found THEN Touch(lruUse, k) ELSE lruUse
     /\ last' = Call("Get", k, r.value, r.found, Gone(lru.items, r.cache.items))
     /\ UNCHANGED lruFrame

LRUPeek(k) ==
  LET r == LRU_Peek(lru, k)
  IN /\ policy = "lru"
     /\ lru' = r.cache
     /\ lruUse' = lruUse
     /\ last' = Call("Peek", k, r.value, r.found, Gone(lru.items, r.cache.items))
     /\ UNCHANGED lruFrame

LRUDelete(k) ==
  LET r == LRU_Delete(lru, k)
  IN /\ policy = "lru"
     /\ lru' = r.cache
     /\ lruUse' = Restrict(lruUse, DOMAIN lru'.items)
     /\ last' = Call("Delete", k, Zero, r.found, Gone(lru.items, r.cache.items) \ {k})
     /\ UNCHANGED lruFrame

LRULen ==
  /\ policy = "lru"
  /\ last' = Call("Len", NoKey, LRU_Len(lru), FALSE, {})
  /\ UNCHANGED lruVars
  /\ UNCHANGED lruFrame

NextLRU ==
  \/ \E k \in Keys, v \in Vals : LRUSet(k, v)
  \/ \E k \in Keys : LRUGet(k)
  \/ \E k \in Keys : LRUPeek(k)
  \/ \E k \in Keys : LRUDelete(k)
  \/ LRULen

SpecLRU == InitLRU /\ [][NextLRU]_vars

(***************************************************************************)
(* FIFO.  fifoBorn is the order of the stored keys by the Set that created *)
(* each entry, newest first, kept from the calls alone.                    *)
(***************************************************************************)
InitFIFO ==
  /\ policy = "fifo"
  /\ \E cap \in Caps : fifo = FIFO_New(cap)
  /\ fifoBorn = <<>>
  /\ LRUIdle /\ ClockIdle /\ SLRUIdle /\ RatioIdle
  /\ last = NoCall
  /\ fault = "ok"
  /\ ThreadsIdle

FIFOSet(k, v) ==
  /\ policy = "fifo"
  /\ fifo' = FIFO_Set(fifo, k, v)
  /\ fifoBorn' = Restrict(IF k \in DOMAIN fifo.items THEN fifoBorn ELSE <<k>> \o fifoBorn,
                          DOMAIN fifo'.items)
  /\ last' = Call("Set", k, v, k \in DOMAIN fifo.items,
                  (DOMAIN fifo.items \cup {k}) \ DOMAIN fifo'.items)
  /\ UNCHANGED fifoFrame

FIFOGet(k) ==
  LET r == FIFO_Get(fifo, k)
  IN /\ policy = "fifo"
     /\ fifo' = r.cache
     /\ fifoBorn' = fifoBorn
     /\ last' = Call("Get", k, r.value, r.found, Gone(fifo.items, r.cache.items))
     /\ UNCHANGED fifoFrame

FIFOPeek(k) ==
  LET r == FIFO_Peek(fifo, k)
  IN /\ policy = "fifo"
     /\ fifo' = r.cache
     /\ fifoBorn' = fifoBorn
     /\ last' = Call("Peek", k, r.value, r.found, Gone(fifo.items, r.cache.items))
     /\ UNCHANGED fifoFrame

FIFODelete(k) ==
  LET r == FIFO_Delete(fifo, k)
  IN /\ policy = "fifo"
     /\ fifo' = r.cache
     /\ fifoBorn' = Restrict(fifoBorn, DOMAIN fifo'.items)
     /\ last' = Call("Delete", k, Zero, r.found, Gone(fifo.items, r.cache.items) \ {k})
     /\ UNCHANGED fifoFrame

FIFOLen ==
  /\ policy = "fifo"
  /\ last' = Call("Len", NoKey, FIFO_Len(fifo), FALSE, {})
  /\ UNCHANGED fifoVars
  /\ UNCHANGED fifoFrame

NextFIFO ==
  \/ \E k \in Keys, v \in Vals : FIFOSet(k, v)
  \/ \E k \in Keys : FIFOGet(k)
  \/ \E k \in Keys : FIFOPeek(k)
  \/ \E k \in Keys : FIFODelete(k)
  \/ FIFOLen

SpecFIFO == InitFIFO /\ [][NextFIFO]_vars

(***************************************************************************)
(* Clock.  A call that panics or hangs ends the run: fault records it and  *)
(* no further call is made.                                                *)
(***************************************************************************)
InitClock ==
  /\ policy = "clock"
  /\ \E cap \in Caps : clock = Clock_New(cap)
  /\ LRUIdle /\ FIFOIdle /\ SLRUIdle /\ RatioIdle
  /\ last = NoCall
  /\ fault = "ok"
  /\ ThreadsIdle

ClockSet(k, v) ==
  LET r == Clock_Set(clock, k, v)
  IN /\ policy = "clock"
     /\ fault = "ok"
     /\ clock' = r.cache
     /\ fault' = r.end
     /\ last' = [Call("Set", k, v, k \in DOMAIN clock.items,
                      IF r.end = "ok"
                      THEN (DOMAIN clock.items \cup {k}) \ DOMAIN r.cache.items
                      ELSE Gone(clock.items, r.cache.items))
                 EXCEPT !.cleared = r.cleared, !.swept = r.swept, !.probed = r.probed]
     /\ UNCHANGED clockFrame

ClockGet(k) ==
  LET r == Clock_Get(clock, k)
  IN /\ policy = "clock"
     /\ fault = "ok"
     /\ clock' = r.cache
     /\ last' = Call("Get", k, r.value, r.found, Gone(clock.items, r.cache.items))
     /\ UNCHANGED fault
     /\ UNCHANGED clockFrame

ClockPeek(k) ==
  LET r == Clock_Peek(clock, k)
  IN /\ policy = "clock"
     /\ fault = "ok"
     /\ clock' = r.cache
     /\ last' = Call("Peek", k, r.value, r.found, Gone(clock.items, r.cache.items))
     /\ UNCHANGED fault
     /\ UNCHANGED clockFrame

ClockDelete(k) ==
  LET r == Clock_Delete(clock, k)
  IN /\ policy = "clock"
     /\ fault = "ok"
     /\ clock' = r.cache
     /\ last' = Call("Delete", k, Zero, r.found, Gone(clock.items, r.cache.items) \ {k})
     /\ UNCHANGED fault
     /\ UNCHANGED clockFrame

ClockLen ==
  /\ policy = "clock"
  /\ fault = "ok"
  /\ last' = Call("Len", NoKey, Clock_Len(clock), FALSE, {})
  /\ UNCHANGED <<clockVars, fault>>
  /\ UNCHANGED clockFrame

NextClock ==
  \/ \E k \in Keys, v \in Vals : ClockSet(k, v)
  \/ \E k \in Keys : ClockGet(k)
  \/ \E k \in Keys : ClockPeek(k)
  \/ \E k \in Keys : ClockDelete(k)
  \/ ClockLen

SpecClock == InitClock /\ [][NextClock]_vars

(***************************************************************************)
(* SLRU.  slruArgs keeps the arguments NewWithRatio was called with.       *)
(***************************************************************************)
SLRUPercents == {0, 80, 100}

InitSLRU ==
  /\ policy = "slru"
  /\ \E cap \in Caps, pct \in SLRUPercents :
       /\ slruArgs = [capacity |-> cap, protectedPercent |-> pct]
       /\ slru = SLRU_NewWithRatio(cap, pct)
  /\ LRUIdle /\ FIFOIdle /\ ClockIdle /\ RatioIdle
  /\ last = NoCall
  /\ fault = "ok"
  /\ ThreadsIdle

SLRUSet(k, v) ==
  /\ policy = "slru"
  /\ slru' = SLRU_Set(slru, k, v)
  /\ last' = Call("Set", k, v, k \in DOMAIN slru.items,
                  (DOMAIN slru.items \cup {k}) \ DOMAIN slru'.items)
  /\ UNCHANGED slruArgs
  /\ UNCHANGED slruFrame

SLRUGet(k) ==
  LET r == SLRU_Get(slru, k)
  IN /\ policy = "slru"
     /\ slru' = r.cache
     /\ last' = [Call("Get", k, r.value, r.found, Gone(slru.items, r.cache.items))
                 EXCEPT !.demoted = ProtectedKeys(slru) \cap ProbationKeys(r.cache)]
     /\ UNCHANGED slruArgs
     /\ UNCHANGED slruFrame

SLRUPeek(k) ==
  LET r == SLRU_Peek(slru, k)
  IN /\ policy = "slru"
     /\ slru' = r.cache
     /\ last' = Call("Peek", k, r.value, r.found, Gone(slru.items, r.cache.items))
     /\ UNCHANGED slruArgs
     /\ UNCHANGED slruFrame

SLRUDelete(k) ==
  LET r == SLRU_Delete(slru, k)
  IN /\ policy = "slru"
     /\ slru' = r.cache
     /\ last' = Call("Delete", k, Zero, r.found, Gone(slru.items, r.cache.items) \ {k})
     /\ UNCHANGED slruArgs
     /\ UNCHANGED slruFrame

SLRULen ==
  /\ policy = "slru"
  /\ last' = Call("Len", NoKey, SLRU_Len(slru), FALSE, {})
  /\ UNCHANGED slruVars
  /\ UNCHANGED slruFrame

NextSLRU ==
  \/ \E k \in Keys, v \in Vals : SLRUSet(k, v)
  \/ \E k \in Keys : SLRUGet(k)
  \/ \E k \in Keys : SLRUPeek(k)
  \/ \E k \in Keys : SLRUDelete(k)
  \/ SLRULen

SpecSLRU == InitSLRU /\ [][NextSLRU]_vars

(***************************************************************************)
(* NewWithRatio as a function of its arguments: every capacity of the      *)
(* model's word and every protectedPercent of a uint8.                     *)
(***************************************************************************)
InitRatio ==
  /\ policy = "ratio"
  /\ ratioArgs \in [capacity : 0..(Word - 1), protectedPercent : 0..MaxPercent]
  /\ ratioCaps = NoCaps
  /\ LRUIdle /\ FIFOIdle /\ ClockIdle /\ SLRUIdle
  /\ last = NoCall
  /\ fault = "ok"
  /\ ThreadsIdle

RatioNew ==
  /\ policy = "ratio"
  /\ ~ratioCaps.built
  /\ LET c == SLRU_NewWithRatio(ratioArgs.capacity, ratioArgs.protectedPercent)
     IN ratioCaps' = [built |-> TRUE, protectedCap |-> c.protectedCap,
                      probationCap |-> c.probationCap]
  /\ UNCHANGED <<policy, ratioArgs, lruVars, fifoVars, clockVars, slruVars, last, fault,
               threadVars>>

NextRatio == RatioNew

SpecRatio == InitRatio /\ [][NextRatio]_vars

(***************************************************************************)
(* An SLRU cache on which Get is never called, next to an LRU cache of     *)
(* capacity probationCap that receives the same calls.                     *)
(***************************************************************************)
InitNoGet ==
  /\ policy = "noget"
  /\ \E cap \in Caps, pct \in SLRUPercents :
       /\ slruArgs = [capacity |-> cap, protectedPercent |-> pct]
       /\ slru = SLRU_NewWithRatio(cap, pct)
  /\ lru = LRU_New(slru.probationCap)
  /\ lruUse = <<>>
  /\ FIFOIdle /\ ClockIdle /\ RatioIdle
  /\ last = NoCall
  /\ fault = "ok"
  /\ ThreadsIdle

NoGetSet(k, v) ==
  /\ policy = "noget"
  /\ slru' = SLRU_Set(slru, k, v)
  /\ lru' = LRU_Set(lru, k, v)
  /\ last' = Call("Set", k, v, k \in DOMAIN slru.items,
                  (DOMAIN slru.items \cup {k}) \ DOMAIN slru'.items)
  /\ UNCHANGED <<policy, lruUse, slruArgs, fifoVars, clockVars, ratioVars, fault, threadVars>>

NoGetPeek(k) ==
  LET r == SLRU_Peek(slru, k)
  IN /\ policy = "noget"
     /\ slru' = r.cache
     /\ lru' = LRU_Peek(lru, k).cache
     /\ last' = Call("Peek", k, r.value, r.found, Gone(slru.items, r.cache.items))
     /\ UNCHANGED <<policy, lruUse, slruArgs, fifoVars, clockVars, ratioVars, fault, threadVars>>

NoGetDelete(k) ==
  LET r == SLRU_Delete(slru, k)
  IN /\ policy = "noget"
     /\ slru' = r.cache
     /\ lru' = LRU_Delete(lru, k).cache
     /\ last' = Call("Delete", k, Zero, r.found, Gone(slru.items, r.cache.items) \ {k})
     /\ UNCHANGED <<policy, lruUse, slruArgs, fifoVars, clockVars, ratioVars, fault, threadVars>>

NoGetLen ==
  /\ policy = "noget"
  /\ last' = Call("Len", NoKey, SLRU_Len(slru), FALSE, {})
  /\ UNCHANGED <<policy, lruVars, slruVars, fifoVars, clockVars, ratioVars, fault, threadVars>>

NextNoGet ==
  \/ \E k \in Keys, v \in Vals : NoGetSet(k, v)
  \/ \E k \in Keys : NoGetPeek(k)
  \/ \E k \in Keys : NoGetDelete(k)
  \/ NoGetLen

SpecNoGet == InitNoGet /\ [][NextNoGet]_vars

(***************************************************************************)
(* The four policies side by side: a cache of any one package, of any      *)
(* capacity in Caps, under any sequence of calls.                          *)
(***************************************************************************)
InitAll == InitLRU \/ InitFIFO \/ InitClock \/ InitSLRU

NextAll ==
  \/ \E k \in Keys, v \in Vals : LRUSet(k, v)
  \/ \E k \in Keys : LRUGet(k)
  \/ \E k \in Keys : LRUPeek(k)
  \/ \E k \in Keys : LRUDelete(k)
  \/ LRULen
  \/ \E k \in Keys, v \in Vals : FIFOSet(k, v)
  \/ \E k \in Keys : FIFOGet(k)
  \/ \E k \in Keys : FIFOPeek(k)
  \/ \E k \in Keys : FIFODelete(k)
  \/ FIFOLen
  \/ \E k \in Keys, v \in Vals : ClockSet(k, v)
  \/ \E k \in Keys : ClockGet(k)
  \/ \E k \in Keys : ClockPeek(k)
  \/ \E k \in Keys : ClockDelete(k)
  \/ ClockLen
  \/ \E k \in Keys, v \in Vals : SLRUSet(k, v)
  \/ \E k \in Keys : SLRUGet(k)
  \/ \E k \in Keys : SLRUPeek(k)
  \/ \E k \in Keys : SLRUDelete(k)
  \/ SLRULen

SpecAll == InitAll /\ [][NextAll]_vars

\* The common interface of the four packages (Set, Get, Peek, Delete, Len)
\* applied to a cache c of package p.
Cache_Get(p, c, key) ==
  CASE p = "lru" -> LRU_Get(c, key) [] p = "fifo" -> FIFO_Get(c, key)
    [] p = "clock" -> Clock_Get(c, key) [] OTHER -> SLRU_Get(c, key)

Cache_Peek(p, c, key) ==
  CASE p = "lru" -> LRU_Peek(c, key) [] p = "fifo" -> FIFO_Peek(c, key)
    [] p = "clock" -> Clock_Peek(c, key) [] OTHER -> SLRU_Peek(c, key)

Cache_Delete(p, c, key) ==
  CASE p = "lru" -> LRU_Delete(c, key) [] p = "fifo" -> FIFO_Delete(c, key)
    [] p = "clock" -> Clock_Delete(c, key) [] OTHER -> SLRU_Delete(c, key)

Cache_Len(p, c) ==
  CASE p = "lru" -> LRU_Len(c) [] p = "fifo" -> FIFO_Len(c)
    [] p = "clock" -> Clock_Len(c) [] OTHER -> SLRU_Len(c)

Cache_Set(p, c, key, value) ==
  CASE p = "lru" -> [cache |-> LRU_Set(c, key, value), end |-> "ok"]
    [] p = "fifo" -> [cache |-> FIFO_Set(c, key, value), end |-> "ok"]
    [] p = "clock" -> [cache |-> Clock_Set(c, key, value).cache,
                       end |-> Clock_Set(c, key, value).end]
    [] OTHER -> [cache |-> SLRU_Set(c, key, value), end |-> "ok"]

\* One call of method op: the cache it leaves, what it returns, how it ends.
Cache_Call(p, c, op, key, value) ==
  CASE op = "Set" ->
         [cache |-> Cache_Set(p, c, key, value).cache, value |-> Zero,
          found |-> FALSE, end |-> Cache_Set(p, c, key, value).end]
    [] op = "Get" ->
         [cache |-> Cache_Get(p, c, key).cache, value |-> Cache_Get(p, c, key).value,
          found |-> Cache_Get(p, c, key).found, end |-> "ok"]
    [] op = "Peek" ->
         [cache |-> Cache_Peek(p, c, key).cache, value |-> Cache_Peek(p, c, key).value,
          found |-> Cache_Peek(p, c, key).found, end |-> "ok"]
    [] op = "Delete" ->
         [cache |-> Cache_Delete(p, c, key).cache, value |-> Zero,
          found |-> Cache_Delete(p, c, key).found, end |-> "ok"]
    [] OTHER ->
         [cache |-> c, value |-> Cache_Len(p, c), found |-> FALSE, end |-> "ok"]

(***************************************************************************)
(* Goroutines.  Several goroutines call one cache.  A method is the list   *)
(* of its instructions: Lock (c.mu.Lock(), the first statement of every    *)
(* method), Find (the lookup of the key in the index, the next statement   *)
(* of every method but Len), Apply (the rest of the method, which acts on  *)
(* what the lookup gave) and Unlock (the deferred c.mu.Unlock(), which     *)
(* also runs when the method panics).  FIFO Peek takes no lock of its own: *)
(* it is a call of Get, which takes it.  A goroutine in a call waits at    *)
(* Lock; which method it is in and with which key and value shows when it  *)
(* first acts on them, at Lock and at Find.  A panic that no caller        *)
(* recovers ends the process after the deferred Unlock.                    *)
(***************************************************************************)
Ops == {"Set", "Get", "Peek", "Delete", "Len"}

\* Mutant of Method: the defer is missing, so the mutex is unlocked right
\* after it is locked.
Method_noDefer(p, op) ==
  IF op = "Len" THEN <<"Lock", "Unlock", "Apply">>
  ELSE <<"Lock", "Unlock", "Find", "Apply">>

Method(p, op) ==
  IF op = "Len" THEN <<"Lock", "Apply", "Unlock">>
  ELSE <<"Lock", "Find", "Apply", "Unlock">>

\* Mutant of Held: the methods have value receivers, so each call locks its
\* own copy of the mutex and never finds it locked.
Held_copied(m) == FALSE

\* The mutex is locked: Lock blocks.
Held(m) == m # Free

\* n, ok := c.items[key]
Lookup(c, key) ==
  [found |-> key \in DOMAIN c.items,
   at |-> IF key \in DOMAIN c.items THEN c.items[key] ELSE Nil]

\* The cache as the rest of a method sees it after its lookup: the index
\* entry of its key is what the lookup gave.
View(c, key, seen) ==
  [c EXCEPT !.items = IF seen.found THEN Put(c.items, key, seen.at)
                      ELSE Drop(c.items, key)]

\* The cache under test becomes c.
Store(c) ==
  /\ lru' = IF policy = "lru" THEN c ELSE lru
  /\ fifo' = IF policy = "fifo" THEN c ELSE fifo
  /\ clock' = IF policy = "clock" THEN c ELSE clock
  /\ slru' = IF policy = "slru" THEN c ELSE slru

\* The goroutine th after an instruction that ended with `end`: it goes on
\* with the instructions left; with none left the call returns, or the panic
\* leaves the method.
Rest(th, end) ==
  IF Tail(th.todo) # <<>> THEN [th EXCEPT !.todo = Tail(@)]
  ELSE IF end = "ok" THEN IdleThread
  ELSE [th EXCEPT !.todo = <<"Panic">>]

threadFrame == <<policy, lruUse, fifoBorn, slruArgs, ratioVars, last>>

\* The caches the goroutines share: one of any package and capacity, the
\* SLRU cache built by New (protectedPercent 80).
InitThreads ==
  \/ InitLRU
  \/ InitFIFO
  \/ InitClock
  \/ InitSLRU /\ slruArgs.protectedPercent = 80 /\ slru = SLRU_New(slruArgs.capacity)

Invoke(t) ==
  /\ fault = "ok"
  /\ threads[t].todo = <<>>
  /\ threads' = [threads EXCEPT ![t].todo = <<"Lock">>]
  /\ UNCHANGED <<lru, fifo, clock, slru, fault, mu, atomic, threadFrame>>

Lock(t, op) ==
  /\ fault = "ok"
  /\ threads[t].todo # <<>> /\ Head(threads[t].todo) = "Lock"
  /\ ~Held(mu)
  /\ mu' = t
  /\ threads' = [threads EXCEPT ![t].op = op, ![t].todo = Tail(Method(policy, op))]
  /\ UNCHANGED <<lru, fifo, clock, slru, fault, atomic, threadFrame>>

Find(t, k, v) ==
  /\ fault = "ok"
  /\ threads[t].todo # <<>> /\ Head(threads[t].todo) = "Find"
  /\ v = Zero <=> threads[t].op # "Set"
  /\ threads' = [threads EXCEPT ![t].todo = Tail(@), ![t].key = k, ![t].value = v,
                                ![t].seen = Lookup(Cache, k)]
  /\ UNCHANGED <<lru, fifo, clock, slru, fault, mu, atomic, threadFrame>>

Apply(t) ==
  LET th == threads[t]
      c == IF th.op = "Len" THEN Cache ELSE View(Cache, th.key, th.seen)
      r == Cache_Call(policy, c, th.op, th.key, th.value)
      a == Cache_Call(policy, atomic, th.op, th.key, th.value)
  IN /\ fault = "ok"
     /\ th.todo # <<>> /\ Head(th.todo) = "Apply"
     /\ Store(r.cache)
     /\ atomic' = a.cache
     /\ fault' = r.end
     /\ threads' = [threads EXCEPT ![t] =
                      Rest([IdleThread EXCEPT !.todo = th.todo, !.op = th.op,
                                              !.ret = [value |-> r.value, found |-> r.found],
                                              !.want = [value |-> a.value, found |-> a.found]],
                           r.end)]
     /\ UNCHANGED <<mu, threadFrame>>

Unlock(t) ==
  /\ threads[t].todo # <<>> /\ Head(threads[t].todo) = "Unlock"
  /\ mu' = Free
  /\ threads' = [threads EXCEPT ![t] = Rest(@, fault)]
  /\ UNCHANGED <<lru, fifo, clock, slru, fault, atomic, threadFrame>>

NextThreads ==
  \/ \E t \in Threads : Invoke(t)
  \/ \E t \in Threads, op \in Ops : Lock(t, op)
  \/ \E t \in Threads, k \in 1..NumThreadKeys, v \in Vals \cup {Zero} : Find(t, k, v)
  \/ \E t \in Threads : Apply(t)
  \/ \E t \in Threads : Unlock(t)

SpecThreads == InitThreads /\ [][NextThreads]_vars

\* The scheduler runs every goroutine that can take a step, and sync.Mutex
\* hands the lock to a goroutine that keeps waiting for it (starvation mode).
Fairness ==
  \A t \in Threads :
    /\ WF_vars((\E k \in 1..NumThreadKeys, v \in Vals \cup {Zero} : Find(t, k, v))
               \/ Apply(t) \/ Unlock(t))
    /\ SF_vars(\E op \in Ops : Lock(t, op))

SpecThreadsFair == SpecThreads /\ Fairness

(***************************************************************************)
(* Claims                                                                  *)
(***************************************************************************)
Last(seq) == seq[Len(seq)]

\* C1: LRU recency.  In an LRU cache of capacity >= 1, a Set of an absent key
\* into a full cache evicts exactly one entry, the stored key whose most
\* recent Set or Get is the oldest (Peek is no use), and every other stored
\* key stays.
C1_LRURecency ==
  [][(/\ last'.op = "Set" /\ ~last'.found
      /\ lru.capacity >= 1 /\ LRU_Len(lru) = lru.capacity)
     => /\ last'.evicted = {Last(lruUse)}
        /\ DOMAIN lru'.items = (DOMAIN lru.items \ {Last(lruUse)}) \cup {last'.key}]_vars

\* C1 witness: a Set of an absent key into a full cache of capacity >= 2 has
\* evicted one of the stored keys, and the list's head is the new key.
C1_Witness ==
  /\ last.op = "Set" /\ ~last.found
  /\ lru.capacity >= 2 /\ LRU_Len(lru) = lru.capacity
  /\ Cardinality(last.evicted) = 1 /\ last.key \notin last.evicted
  /\ LRU_List(lru)[1] = last.key

\* C2: FIFO insertion order.  A Set of an absent key into a full FIFO cache
\* that holds an entry evicts the stored key whose creating Set is the
\* oldest, whatever Get, Peek or updating Set happened in between.
C2_FIFOOrder ==
  [][(/\ last'.op = "Set" /\ ~last'.found
      /\ FIFO_Len(fifo) >= fifo.capacity /\ FIFO_Len(fifo) >= 1)
     => /\ last'.evicted = {Last(fifoBorn)}
        /\ DOMAIN fifo'.items = (DOMAIN fifo.items \ {Last(fifoBorn)}) \cup {last'.key}]_vars

\* C2 witness: a Set of an absent key into a full cache of capacity >= 2 has
\* evicted one stored key.
C2_Witness ==
  /\ last.op = "Set" /\ ~last.found
  /\ fifo.capacity >= 2 /\ FIFO_Len(fifo) = fifo.capacity
  /\ Cardinality(last.evicted) = 1 /\ last.key \notin last.evicted

\* The slot of key k, and whether every entry of the ring has its bit set.
SlotOf(c, k) == c.items[k]
AllReferenced(c) == \A i \in DOMAIN c.ring : ~c.ring[i].nil => c.ring[i].referenced

\* The slots the hand passes in a sweep that starts at c.hand and evicts the
\* entry of slot s: those from the hand up to s, and the whole ring when the
\* entry of s had its bit set.
Passed(c, s) ==
  LET d == IF c.ring[s].referenced THEN c.capacity ELSE (s - c.hand) % c.capacity
  IN {(c.hand + j) % c.capacity : j \in 0..(d - 1)}

\* C3: Clock second chance.  In a sweep (a Set of an absent key with
\* size >= capacity >= 1) the evicted entry had its reference bit clear when
\* the sweep started unless every entry had it set; every entry the hand
\* passed had its bit set, stays in its slot and has its bit clear afterwards.
C3_SecondChance ==
  [][(/\ last'.op = "Set" /\ ~last'.found
      /\ clock.capacity >= 1 /\ clock.size >= clock.capacity)
     => /\ fault' = "ok"
        /\ Cardinality(last'.evicted) = 1
        /\ \A v \in last'.evicted :
             /\ v \in DOMAIN clock.items
             /\ clock.ring[SlotOf(clock, v)].referenced => AllReferenced(clock)
             /\ \A i \in Passed(clock, SlotOf(clock, v)) :
                  /\ clock.ring[i].referenced
                  /\ i # SlotOf(clock, v) =>
                       /\ clock'.ring[i].key = clock.ring[i].key
                       /\ ~clock'.ring[i].referenced
             /\ last'.cleared = {clock.ring[i].key : i \in Passed(clock, SlotOf(clock, v))}]_vars

\* C3 witness: a Set of an absent key swept past a referenced entry, which is
\* still stored with its bit clear, and evicted another entry.
C3_Witness ==
  /\ last.op = "Set" /\ ~last.found /\ fault = "ok"
  /\ Cardinality(last.evicted) = 1
  /\ last.cleared # {}
  /\ \A k \in last.cleared :
       k \in DOMAIN clock.items /\ ~clock.ring[clock.items[k]].referenced

\* C4: SLRU scan resistance.  A Set, of a new or of an existing key, removes
\* no protected entry: every key on the protected list is still on it after
\* the Set, and every key the Set evicted was on the probation list.
C4_ScanResistance ==
  [][last'.op = "Set"
     => /\ ProtectedKeys(slru) \subseteq ProtectedKeys(slru')
        /\ ProtectedKeys(slru') \subseteq DOMAIN slru'.items
        /\ last'.evicted \subseteq ProbationKeys(slru)]_vars

\* C4 witness: a Set has evicted an entry while the protected list holds one.
C4_Witness ==
  /\ last.op = "Set" /\ last.evicted # {}
  /\ ProtectedKeys(slru) # {}

\* C5: LRU capacity bound.  After any sequence of Set, Get, Peek and Delete
\* on an LRU cache of any capacity, 0 included, Len() <= capacity.
C5_LRUBound == LRU_Len(lru) <= lru.capacity

\* C5 witness: a Set of an absent key has evicted and the cache is full.
C5_Witness ==
  /\ last.op = "Set" /\ ~last.found /\ last.evicted # {}
  /\ LRU_Len(lru) = lru.capacity

\* C6: Clock capacity bound.  For a Clock cache of capacity >= 1, after any
\* sequence of calls, Len() (the size counter) is <= capacity.
C6_ClockBound == clock.capacity >= 1 => Clock_Len(clock) <= clock.capacity

\* C6 witness: a Set of an absent key has evicted and the ring is full.
C6_Witness ==
  /\ last.op = "Set" /\ ~last.found /\ last.evicted # {}
  /\ clock.capacity >= 1 /\ Clock_Len(clock) = clock.capacity

\* C7 as stated: FIFO capacity bound for every capacity, 0 included.
C7_FIFOBoundAnyCapacity == FIFO_Len(fifo) <= fifo.capacity

\* C7: FIFO capacity bound, amended.  For a FIFO cache of capacity >= 1,
\* Len() <= capacity after any sequence of calls; for capacity 0, Len() <= 1.
C7_FIFOBound ==
  /\ fifo.capacity >= 1 => FIFO_Len(fifo) <= fifo.capacity
  /\ fifo.capacity = 0 => FIFO_Len(fifo) <= 1

\* C7 witness: a FIFO cache of capacity 0 holds one entry after a Set that
\* evicted the entry stored before.
C7_Witness ==
  /\ fifo.capacity = 0 /\ FIFO_Len(fifo) = 1
  /\ last.op = "Set" /\ ~last.found /\ last.evicted # {}

\* C8: SLRU segment bounds.  After every public operation,
\* probationLen <= probationCap and protectedLen <= protectedCap, hence
\* Len() <= protectedCap + probationCap.
C8_SLRUSegmentBounds ==
  /\ slru.probationLen <= slru.probationCap
  /\ slru.protectedLen <= slru.protectedCap
  /\ SLRU_Len(slru) <= slru.protectedCap + slru.probationCap

\* C8 witness: a Get hit has returned with both segments at their capacity
\* and its key on the protected list.
C8_Witness ==
  /\ last.op = "Get" /\ last.found
  /\ slru.probationLen = slru.probationCap
  /\ slru.protectedLen = slru.protectedCap
  /\ last.key \in ProtectedKeys(slru)

\* C9 as stated: an SLRU cache never holds more entries than the capacity
\* passed to New / NewWithRatio, for every capacity and protectedPercent.
C9_SLRUTotalCapacity == SLRU_Len(slru) <= slruArgs.capacity

\* C10 as stated: for every capacity and protectedPercent, NewWithRatio
\* yields protected_cap >= 1, probation_cap >= 1 and
\* probation_cap + protected_cap == capacity.
C10_CapacitySplit ==
  ratioCaps.built =>
    /\ ratioCaps.protectedCap >= 1
    /\ ratioCaps.probationCap >= 1
    /\ ratioCaps.probationCap + ratioCaps.protectedCap = ratioArgs.capacity

\* The capacity the cache under test was constructed with.
Capacity == IF policy = "slru" THEN slruArgs.capacity ELSE Cache.capacity

\* C11: Peek purity.  In every policy a Peek, of a present or of an absent
\* key, leaves the whole cache state as it was: lists, segments, counters,
\* ring, reference bits, hand, index and values.
C11_PeekPurity ==
  [][last'.op = "Peek"
     => /\ lru' = lru /\ fifo' = fifo /\ clock' = clock /\ slru' = slru
        /\ fault' = fault]_vars

\* C11 witness: a Peek has found a key of a Clock cache whose reference bit
\* is clear, where a Get would have set it.
C11_Witness ==
  /\ policy = "clock" /\ last.op = "Peek" /\ last.found
  /\ ~clock.ring[clock.items[last.key]].referenced

\* C12: round trip.  In every policy, for a cache constructed with
\* capacity >= 1, right after Set(k, v) the call has not failed and both
\* Get(k) and Peek(k) return (v, true), whether k was new or present and
\* whether or not the Set evicted.
C12_RoundTrip ==
  (last.op = "Set" /\ Capacity >= 1)
    => /\ fault = "ok"
       /\ Cache_Get(policy, Cache, last.key).found
       /\ Cache_Get(policy, Cache, last.key).value = last.value
       /\ Cache_Peek(policy, Cache, last.key).found
       /\ Cache_Peek(policy, Cache, last.key).value = last.value
       /\ last.key \notin last.evicted

\* C12 witness: a Set of a new key has evicted another entry of a cache of
\* capacity >= 1 and the key is now stored with the value of the Set.
C12_Witness ==
  /\ last.op = "Set" /\ ~last.found /\ Capacity >= 1
  /\ last.evicted # {} /\ last.key \notin last.evicted
  /\ Cache_Peek(policy, Cache, last.key).value = last.value

\* C13: Delete contract.  In every policy, Delete(k) of an absent key returns
\* false and leaves Len() as it was; Delete(k) of a present key returns true,
\* lowers Len() by exactly 1, and afterwards Get(k) and Peek(k) do not find k
\* and a second Delete(k) returns false.
C13_DeleteContract ==
  [][last'.op = "Delete"
     => LET k == last'.key
            present == Cache_Peek(policy, Cache, k).found
        IN /\ last'.found = present
           /\ fault' = fault
           /\ ~present => Cache_Len(policy, Cache') = Cache_Len(policy, Cache)
           /\ present =>
                /\ Cache_Len(policy, Cache') = Cache_Len(policy, Cache) - 1
                /\ ~Cache_Get(policy, Cache', k).found
                /\ ~Cache_Peek(policy, Cache', k).found
                /\ ~Cache_Delete(policy, Cache', k).found]_vars

\* C13 witness: a Delete has removed a present key of a Clock cache and
\* another entry is still stored.
C13_Witness ==
  /\ policy = "clock" /\ last.op = "Delete" /\ last.found
  /\ Clock_Len(clock) >= 1
  /\ last.key \notin DOMAIN clock.items

\* C14: miss handling.  In every policy a Get or a Peek of an absent key
\* returns (zero value, false), does not fail and leaves the whole cache
\* state as it was.
C14_MissHandling ==
  [][(last'.op \in {"Get", "Peek"} /\ last'.key \notin DOMAIN Cache.items)
     => /\ last'.value = Zero /\ ~last'.found
        /\ lru' = lru /\ fifo' = fifo /\ clock' = clock /\ slru' = slru
        /\ fault' = fault]_vars

\* C14 witness: a Get has missed on an SLRU cache that holds an entry in
\* each segment.
C14_Witness ==
  /\ policy = "slru" /\ last.op = "Get" /\ ~last.found
  /\ slru.probationLen >= 1 /\ slru.protectedLen >= 1

\* C15 as stated: on a Clock cache of capacity 0 every call completes without
\* failure and Len() stays 0.
C15_ClockZeroCapacity ==
  (policy = "clock" /\ clock.capacity = 0)
    => fault = "ok" /\ Clock_Len(clock) = 0

\* C16: LRU capacity 0.  On an LRU cache of capacity 0 every Set evicts the
\* entry it just inserted, Len() is 0 after every call, and no Get or Peek
\* finds a key.
C16_LRUZeroCapacity ==
  (policy = "lru" /\ lru.capacity = 0)
    => /\ LRU_Len(lru) = 0
       /\ fault = "ok"
       /\ last.op = "Set" => last.evicted = {last.key}
       /\ last.op \in {"Get", "Peek"} => ~last.found /\ last.value = Zero
       /\ last.op = "Len" => last.value = 0
       /\ \A k \in Keys : ~LRU_Get(lru, k).found /\ ~LRU_Peek(lru, k).found

\* C16 witness: a Set on an LRU cache of capacity 0 has evicted its own key.
C16_Witness ==
  /\ policy = "lru" /\ lru.capacity = 0
  /\ last.op = "Set" /\ last.evicted = {last.key}

\* C17: FIFO capacity 0.  On a FIFO cache of capacity 0 a Set of a new key
\* evicts what was stored (nothing when the cache was empty, else the single
\* stored entry) and then stores its entry: afterwards Len() = 1 and the key
\* of the Set is the only key found.
C17_FIFOZeroCapacity ==
  [][(policy = "fifo" /\ fifo.capacity = 0 /\ last'.op = "Set" /\ ~last'.found)
     => /\ FIFO_Len(fifo) <= 1
        /\ last'.evicted = DOMAIN fifo.items
        /\ FIFO_Len(fifo') = 1
        /\ \A k \in Keys :
             /\ FIFO_Get(fifo', k).found = (k = last'.key)
             /\ FIFO_Peek(fifo', k).found = (k = last'.key)
        /\ FIFO_Get(fifo', last'.key).value = last'.value]_vars

\* C17 witness: on a FIFO cache of capacity 0 a Set of a new key has evicted
\* the stored entry, and its own key is found while the evicted key is not.
C17_Witness ==
  /\ policy = "fifo" /\ fifo.capacity = 0
  /\ last.op = "Set" /\ ~last.found /\ Cardinality(last.evicted) = 1
  /\ FIFO_Get(fifo, last.key).found
  /\ \A k \in last.evicted : ~FIFO_Get(fifo, k).found

\* Each key of the index resolves to a live node or slot that holds the key,
\* each live node or slot has its key's index entry, and the lists (the size
\* counter for Clock) hold exactly the indexed keys.
Consistent(p, c) ==
  LET live == IF p = "clock" THEN {i \in DOMAIN c.ring : ~c.ring[i].nil}
              ELSE {n \in DOMAIN c.nodes : n > Nil}
      keyAt(n) == IF p = "clock" THEN c.ring[n].key ELSE c.nodes[n].key
      listed == CASE p = "lru" -> LRU_List(c) [] p = "fifo" -> FIFO_List(c)
                  [] p = "slru" -> SLRU_Probation(c) \o SLRU_Protected(c)
                  [] OTHER -> <<>>
  IN /\ \A k \in DOMAIN c.items : c.items[k] \in live /\ keyAt(c.items[k]) = k
     /\ \A n \in live : keyAt(n) \in DOMAIN c.items /\ c.items[keyAt(n)] = n
     /\ p # "clock" => /\ Len(listed) = Cardinality(DOMAIN c.items)
                       /\ Range(listed) = DOMAIN c.items
     /\ p = "clock" => c.size = Cardinality(DOMAIN c.items)

\* C18: concurrent safety.  Under any interleaving of calls from several
\* goroutines, whenever the mutex is free (between operations) the index and
\* the position structure of the cache correspond.
C18_ConcurrentSafety == mu = Free => Consistent(policy, Cache)

\* C18 witness: the mutex is free between two operations on a full Clock
\* cache that holds two entries, while a goroutine waits at Lock.
C18_Witness ==
  /\ policy = "clock" /\ mu = Free
  /\ clock.size = clock.capacity /\ clock.size >= 2
  /\ \E t \in Threads : threads[t].todo = <<"Lock">>

\* The goroutine is in a call and has not yet taken the lock; it is between
\* its Lock and the end of its Unlock (where a method reads and writes the
\* index and the position structure).
Waiting(t) == threads[t].todo # <<>> /\ Head(threads[t].todo) = "Lock"
Inside(t) == threads[t].todo # <<>> /\ Head(threads[t].todo) \in {"Find", "Apply", "Unlock"}

\* C19: linearizability.  A goroutine reads and writes the index and the
\* position structure only while it holds the mutex, at most one goroutine
\* is inside at a time, what a lookup gave is still the index entry when the
\* rest of the method acts on it, and each call returns, and leaves the
\* cache, as the same calls do when they run one at a time in the order in
\* which they took effect (each between its own start and return).
C19_Linearizable ==
  /\ \A t \in Threads : Inside(t) => mu = t
  /\ Cardinality({t \in Threads : Inside(t)}) <= 1
  /\ \A t \in Threads :
       (Inside(t) /\ Head(threads[t].todo) = "Apply" /\ threads[t].op # "Len")
         => threads[t].seen = Lookup(Cache, threads[t].key)
  /\ \A t \in Threads : threads[t].ret = threads[t].want
  /\ Cache = atomic

\* C19 witness: a Get has found a value and is about to unlock while
\* another goroutine waits at Lock.
C19_Witness ==
  \E t, u \in Threads :
    /\ t # u /\ mu = t /\ Waiting(u)
    /\ threads[t].todo = <<"Unlock">> /\ threads[t].op = "Get"
    /\ threads[t].ret.found /\ threads[t].ret.value \in Vals

\* C20 as stated: a goroutine waiting at Lock does not hold the mutex (a
\* call locks at most once), the mutex is held only by a goroutine inside a
\* call (it is released on every exit path), some goroutine can always take
\* a step (no deadlock), and under a fair scheduler every call returns.
C20_LockProgress ==
  /\ [](/\ \A t \in Threads : Waiting(t) => mu # t
        /\ \A t \in Threads : mu = t => Inside(t)
        /\ \E t \in Threads : ~Waiting(t) \/ mu = Free)
  /\ \A t \in Threads : (threads[t].todo # <<>>) ~> (threads[t].todo = <<>>)

\* C21 as stated: constant-time operations.  The number of slots a Clock Set
\* looks at, in its eviction sweep and in its free-slot search, does not
\* depend on the ring size: on a ring of any size it is at most what the
\* worst Set needs on a ring of one slot (full, its entry referenced).
C21_ConstantTime ==
  LET one == Clock_Get(Clock_Set(Clock_New(1), 1, 1).cache, 1).cache
      worst == Clock_Set(one, 2, 1)
  IN (policy = "clock" /\ clock.capacity >= 1 /\ last.op = "Set")
       => last.swept <= worst.swept /\ last.probed <= worst.probed

\* C22: SLRU Set placement.  A Set of an absent key puts the entry at the head
\* of the probation list and not on the protected list; a Set of a present
\* key stores the value, moves the entry to the head of the list it is on and
\* leaves the other list, the entry's segment, probationLen and protectedLen
\* as they were.
C22_SetPlacement ==
  [][last'.op = "Set"
     => LET k == last'.key
        IN /\ SLRU_Peek(slru', k).found /\ SLRU_Peek(slru', k).value = last'.value
           /\ k \notin DOMAIN slru.items =>
                /\ SLRU_Probation(slru')[1] = k
                /\ slru'.nodes[slru'.items[k]].segment = probation
                /\ k \notin ProtectedKeys(slru')
                /\ SLRU_Protected(slru') = SLRU_Protected(slru)
           /\ k \in DOMAIN slru.items =>
                /\ slru'.items = slru.items
                /\ slru'.nodes[slru.items[k]].segment = slru.nodes[slru.items[k]].segment
                /\ slru'.probationLen = slru.probationLen
                /\ slru'.protectedLen = slru.protectedLen
                /\ k \in ProbationKeys(slru) =>
                     /\ SLRU_Probation(slru') = Touch(SLRU_Probation(slru), k)
                     /\ SLRU_Protected(slru') = SLRU_Protected(slru)
                /\ k \in ProtectedKeys(slru) =>
                     /\ SLRU_Protected(slru') = Touch(SLRU_Protected(slru), k)
                     /\ SLRU_Probation(slru') = SLRU_Probation(slru)]_vars

\* C22 witness: a Set of a present key has moved it to the head of a
\* protected list of two entries, while the probation list holds an entry.
C22_Witness ==
  /\ last.op = "Set" /\ last.found
  /\ Len(SLRU_Protected(slru)) = 2 /\ SLRU_Protected(slru)[1] = last.key
  /\ slru.probationLen >= 1

\* C23: SLRU promotion and demotion.  A Get that finds k on the probation list
\* moves it to the head of the protected list; when the protected list was at
\* its capacity, its last entry (never k) goes to the head of the probation
\* list and is still found with its value.  A Get that finds k on the
\* protected list only moves it to the head of that list.  After any Get hit
\* k is on the protected list.
C23_PromoteDemote ==
  [][(last'.op = "Get" /\ last'.found)
     => LET k == last'.key
            prob == SLRU_Probation(slru)
            prot == SLRU_Protected(slru)
            others == SelectSeq(prob, LAMBDA x : x # k)
        IN /\ SLRU_Protected(slru')[1] = k
           /\ slru'.nodes[slru'.items[k]].segment = protected
           /\ k \in Range(prot) =>
                /\ SLRU_Protected(slru') = Touch(prot, k)
                /\ SLRU_Probation(slru') = prob
                /\ last'.demoted = {}
           /\ (k \in Range(prob) /\ Len(prot) < slru.protectedCap) =>
                /\ SLRU_Protected(slru') = <<k>> \o prot
                /\ SLRU_Probation(slru') = others
                /\ last'.demoted = {}
           /\ (k \in Range(prob) /\ Len(prot) >= slru.protectedCap) =>
                /\ Last(prot) # k
                /\ last'.demoted = {Last(prot)}
                /\ SLRU_Protected(slru') = <<k>> \o SubSeq(prot, 1, Len(prot) - 1)
                /\ SLRU_Probation(slru') = <<Last(prot)>> \o others
                /\ SLRU_Peek(slru', Last(prot)).found
                /\ SLRU_Peek(slru', Last(prot)).value = SLRU_Peek(slru, Last(prot)).value]_vars

\* C23 witness: a Get has promoted its key and demoted another entry, which
\* is now at the head of a probation list of two entries.
C23_Witness ==
  /\ last.op = "Get" /\ last.found /\ last.demoted # {}
  /\ SLRU_Protected(slru)[1] = last.key
  /\ Len(SLRU_Probation(slru)) = 2 /\ SLRU_Probation(slru)[1] \in last.demoted

C25_GetNeverEvicts ==
  [][last'.op = "Get"
     => /\ DOMAIN slru'.items = DOMAIN slru.items
        /\ \A k \in Keys : SLRU_Peek(slru', k) = [SLRU_Peek(slru, k) EXCEPT !.cache = slru']
        /\ SLRU_Len(slru') = SLRU_Len(slru)
        /\ last'.evicted = {}
        /\ slru'.probationLen + slru'.protectedLen = slru.probationLen + slru.protectedLen
        /\ last'.demoted # {} => slru'.probationLen = slru.probationLen
        /\ ProbationKeys(slru') \cup ProtectedKeys(slru')
             = ProbationKeys(slru) \cup ProtectedKeys(slru)]_vars

\* C25 witness: a Get has demoted an entry into a full probation list of two
\* entries and all three stored entries are still there.
C25_Witness ==
  /\ last.op = "Get" /\ last.found /\ last.demoted # {}
  /\ slru.probationCap = 2 /\ slru.probationLen = 2
  /\ SLRU_Len(slru) = 3 /\ last.evicted = {}

\* C26: Clock hit is a soft touch.  A Get of a present key and a Set of a
\* present key set the key's reference bit and leave its slot, the hand, the
\* size, the index and every other slot (entry and reference bit) as they
\* were; Get returns the stored value and leaves it, Set replaces it.
C26_SoftTouch ==
  [][(last'.op \in {"Get", "Set"} /\ last'.key \in DOMAIN clock.items)
     => LET k == last'.key
            idx == clock.items[k]
        IN /\ fault' = "ok" /\ last'.found /\ last'.evicted = {}
           /\ clock'.items = clock.items
           /\ clock'.hand = clock.hand
           /\ clock'.size = clock.size
           /\ clock'.capacity = clock.capacity
           /\ DOMAIN clock'.ring = DOMAIN clock.ring
           /\ \A i \in DOMAIN clock.ring : i # idx => clock'.ring[i] = clock.ring[i]
           /\ ~clock'.ring[idx].nil /\ clock'.ring[idx].key = k
           /\ clock'.ring[idx].referenced
           /\ last'.op = "Get" => /\ clock'.ring[idx].value = clock.ring[idx].value
                                  /\ last'.value = clock.ring[idx].value
           /\ last'.op = "Set" => clock'.ring[idx].value = last'.value
           /\ last'.swept = 0 /\ last'.probed = 0]_vars

\* C26 witness: a Get has hit a key of a full ring of two slots; its bit is
\* set, the other entry's bit is clear and the hand is not at slot 0.
C26_Witness ==
  /\ last.op = "Get" /\ last.found /\ clock.size = 2
  /\ clock.ring[clock.items[last.key]].referenced
  /\ \E i \in DOMAIN clock.ring : ~clock.ring[i].nil /\ ~clock.ring[i].referenced
  /\ clock.hand = 1

\* C27: Set evicts only under pressure.  In every policy a Set removes at
\* most one entry, and removes one only when its key is absent and the cache
\* (for SLRU the probation segment) is at its capacity; a Set, Get or Peek of
\* a present key leaves the set of stored keys and Len() as they were.
C27_EvictUnderPressure ==
  [][last'.op \in {"Set", "Get", "Peek"}
     => LET k == last'.key
            present == k \in DOMAIN Cache.items
            atCapacity ==
              CASE policy = "lru" -> LRU_Len(lru) >= lru.capacity
                [] policy = "fifo" -> FIFO_Len(fifo) >= fifo.capacity
                [] policy = "clock" -> Clock_Len(clock) >= clock.capacity
                [] OTHER -> slru.probationLen >= slru.probationCap
        IN /\ Cardinality(DOMAIN Cache.items \ DOMAIN Cache'.items) <= 1
           /\ Cardinality(last'.evicted) <= 1
           /\ DOMAIN Cache.items \ DOMAIN Cache'.items \subseteq last'.evicted
           /\ last'.evicted # {} => last'.op = "Set" /\ ~present /\ atCapacity
           /\ present => /\ DOMAIN Cache'.items = DOMAIN Cache.items
                         /\ Cache_Len(policy, Cache') = Cache_Len(policy, Cache)]_vars

\* C27 witness: a Set of an absent key has evicted one entry of a full SLRU
\* probation segment while the protected segment has room.
C27_Witness ==
  /\ policy = "slru" /\ last.op = "Set" /\ ~last.found
  /\ Cardinality(last.evicted) = 1 /\ last.key \notin last.evicted
  /\ slru.probationLen = slru.probationCap
  /\ slru.protectedLen < slru.protectedCap

\* C28: FIFO reads and updates never reorder.  A Get and a Peek leave the
\* whole FIFO state as it was and return, for every key, the same result:
\* the value stored for a key on the list, (zero, false) for any other key.
\* A Set of a present key replaces that key's value and leaves the list
\* order, every other value, the index and Len() as they were.
C28_FIFONoReorder ==
  [][/\ last'.op \in {"Get", "Peek"}
          => /\ fifo' = fifo /\ fifoBorn' = fifoBorn
             /\ last'.found = (last'.key \in Range(FIFO_List(fifo)))
             /\ last'.value = IF last'.found THEN fifo.nodes[fifo.items[last'.key]].value
                              ELSE Zero
             /\ \A k \in Keys :
                  /\ FIFO_Get(fifo, k).found = FIFO_Peek(fifo, k).found
                  /\ FIFO_Get(fifo, k).value = FIFO_Peek(fifo, k).value
                  /\ FIFO_Get(fifo, k).cache = fifo /\ FIFO_Peek(fifo, k).cache = fifo
     /\ (last'.op = "Set" /\ last'.key \in DOMAIN fifo.items)
          => /\ FIFO_List(fifo') = FIFO_List(fifo)
             /\ FIFO_List(fifo') = fifoBorn'
             /\ fifo'.items = fifo.items
             /\ FIFO_Len(fifo') = FIFO_Len(fifo)
             /\ \A k \in DOMAIN fifo.items :
                  FIFO_Get(fifo', k).value =
                    IF k = last'.key THEN last'.value ELSE FIFO_Get(fifo, k).value]_vars

\* C28 witness: a Set has updated the older of two stored entries, which is
\* still second on the list and holds the new value.
C28_Witness ==
  /\ last.op = "Set" /\ last.found
  /\ Len(FIFO_List(fifo)) = 2 /\ FIFO_List(fifo)[2] = last.key
  /\ FIFO_Peek(fifo, last.key).value = last.value

\* C29: Clock insertion of a new key.  On a ring with slots (capacity >= 1) a
\* Set of an absent key stores the entry, with its reference bit clear, in
\* the first empty slot at or circularly after the hand, and leaves the hand
\* one position (mod capacity) past that slot; when the Set evicted, the slot
\* is the one the victim had.
C29_ClockInsert ==
  [][(last'.op = "Set" /\ last'.key \notin DOMAIN clock.items /\ clock.capacity >= 1)
     => LET k == last'.key
            n == clock.capacity
            s == clock'.items[k]
            skipped == {(clock.hand + j) % n : j \in 0..(((s - clock.hand) % n) - 1)}
        IN /\ fault' = "ok"
           /\ k \in DOMAIN clock'.items /\ s \in 0..(n - 1)
           /\ clock'.ring[s] = Entry(k, last'.value, FALSE)
           /\ clock'.hand = (s + 1) % n
           /\ \A i \in DOMAIN clock.ring : i # s =>
                /\ clock'.ring[i].key = clock.ring[i].key
                /\ clock'.ring[i].value = clock.ring[i].value
           /\ last'.evicted = {} =>
                /\ clock.size < n /\ clock.ring[s].nil
                /\ \A i \in skipped : ~clock.ring[i].nil
                /\ last'.probed = Cardinality(skipped) + 1
                /\ clock'.size = clock.size + 1
           /\ last'.evicted # {} =>
                /\ clock.size = n
                /\ last'.evicted = {clock.ring[s].key}
                /\ last'.probed = 1
                /\ clock'.size = clock.size]_vars

\* C29 witness: a Set of an absent key, without eviction, has passed an
\* occupied slot under the hand and stored its entry in the next slot; the
\* hand is one past it.
C29_Witness ==
  /\ last.op = "Set" /\ ~last.found /\ last.evicted = {} /\ fault = "ok"
  /\ last.probed = 2
  /\ clock.hand = (clock.items[last.key] + 1) % clock.capacity
  /\ ~clock.ring[clock.items[last.key]].referenced

\* C30: Clock sweep termination.  On a ring of N >= 1 slots every Set ends
\* normally: its eviction sweep looks at no more than N + 1 slots and clears
\* no slot's reference bit twice (the clears are as many as the keys
\* cleared), and its free-slot search probes no more than N slots.
C30_SweepTermination ==
  (policy = "clock" /\ clock.capacity >= 1)
    => /\ fault = "ok"
       /\ last.swept <= clock.capacity + 1
       /\ last.probed <= clock.capacity
       /\ last.swept >= 1 => /\ Cardinality(last.cleared) = last.swept - 1
                             /\ Cardinality(last.evicted) = 1
       /\ last.swept = 0 => last.cleared = {}
       /\ (last.op = "Set" /\ ~last.found) => last.probed >= 1

\* C30 witness: a sweep over a full ring of two slots has looked at three
\* slots, clearing both reference bits before it evicted.
C30_Witness ==
  /\ policy = "clock" /\ clock.capacity = 2 /\ fault = "ok"
  /\ last.op = "Set" /\ last.swept = 3 /\ Cardinality(last.cleared) = 2

\* C31: Clock sweep with all bits set.  When every entry's reference bit is
\* set as an eviction sweep starts (a Set of an absent key into a full ring
\* of N >= 1 slots), the sweep clears all N bits, comes back to the slot the
\* hand started at and evicts the entry there; the new entry takes that slot
\* and every other entry stays with its bit clear.
C31_SweepAllSet ==
  [][(/\ last'.op = "Set" /\ last'.key \notin DOMAIN clock.items
      /\ clock.capacity >= 1 /\ clock.size >= clock.capacity
      /\ AllReferenced(clock))
     => LET n == clock.capacity
            start == clock.hand
        IN /\ fault' = "ok"
           /\ ~clock.ring[start].nil
           /\ last'.evicted = {clock.ring[start].key}
           /\ last'.cleared = {clock.ring[i].key : i \in DOMAIN clock.ring}
           /\ Cardinality(last'.cleared) = n
           /\ last'.swept = n + 1
           /\ clock'.items[last'.key] = start
           /\ clock'.hand = (start + 1) % n
           /\ \A i \in DOMAIN clock.ring : i # start =>
                /\ clock'.ring[i].key = clock.ring[i].key
                /\ ~clock'.ring[i].referenced
           /\ clock.ring[start].key \notin DOMAIN clock'.items]_vars

\* C31 witness: on a ring of one slot a Set has swept twice over the single
\* referenced entry, evicted it and stored its own key.
C31_Witness ==
  /\ policy = "clock" /\ clock.capacity = 1 /\ fault = "ok"
  /\ last.op = "Set" /\ last.swept = 2 /\ Cardinality(last.evicted) = 1
  /\ last.cleared = last.evicted
  /\ DOMAIN clock.items = {last.key}

\* C32: Clock eviction precondition.  On a ring of N >= 1 slots the eviction
\* sweep runs exactly in a Set of an absent key with size >= capacity, and
\* whenever it runs every ring slot holds an entry, so the sweep reads no
\* empty slot: it ends normally and the keys it clears and evicts were
\* stored.  This holds in every reachable state, those reached through
\* Deletes and refills included.
C32_EvictPrecondition ==
  [][(/\ last'.op = "Set" /\ clock.capacity >= 1
      /\ \/ last'.swept >= 1
         \/ last'.key \notin DOMAIN clock.items /\ clock.size >= clock.capacity)
     => /\ last'.key \notin DOMAIN clock.items
        /\ clock.size = clock.capacity
        /\ DOMAIN clock.ring = 0..(clock.capacity - 1)
        /\ \A i \in DOMAIN clock.ring : ~clock.ring[i].nil
        /\ fault' = "ok"
        /\ last'.swept >= 1
        /\ last'.cleared \cup last'.evicted \subseteq DOMAIN clock.items]_vars

\* C32 witness: a sweep has run on a full ring of two slots and evicted the
\* entry under the hand at once; both slots hold an entry again.
C32_Witness ==
  /\ policy = "clock" /\ clock.capacity = 2 /\ fault = "ok"
  /\ last.op = "Set" /\ last.swept = 1 /\ last.cleared = {}
  /\ \A i \in DOMAIN clock.ring : ~clock.ring[i].nil

\* C33: Clock slot reuse after Delete.  While the ring has an empty slot
\* (size < capacity, as after a Delete) a Set of an absent key evicts
\* nothing and clears no bit: it fills a slot that was empty, Len() grows by
\* exactly one, and every other slot, the occupied slots the hand passed
\* included, keeps its entry and its reference bit.
C33_SlotReuse ==
  [][(/\ last'.op = "Set" /\ last'.key \notin DOMAIN clock.items
      /\ clock.capacity >= 1
      /\ \E i \in DOMAIN clock.ring : clock.ring[i].nil)
     => LET s == clock'.items[last'.key]
        IN /\ fault' = "ok"
           /\ clock.size < clock.capacity
           /\ last'.evicted = {} /\ last'.cleared = {} /\ last'.swept = 0
           /\ DOMAIN clock'.items = DOMAIN clock.items \cup {last'.key}
           /\ Clock_Len(clock') = Clock_Len(clock) + 1
           /\ clock.ring[s].nil
           /\ \A i \in DOMAIN clock.ring : i # s => clock'.ring[i] = clock.ring[i]]_vars

\* C33 witness: after a Delete left the second slot empty, a Set has passed
\* the referenced entry under the hand, which still has its bit set, and
\* filled the empty slot.
C33_Witness ==
  /\ policy = "clock" /\ clock.capacity = 2 /\ clock.size = 2 /\ fault = "ok"
  /\ last.op = "Set" /\ ~last.found /\ last.evicted = {} /\ last.probed = 2
  /\ clock.items[last.key] = 1
  /\ clock.ring[0].referenced

\* C34: Delete frame.  A Delete of a present key k removes only k: every
\* other stored key keeps its value and its place relative to the others in
\* the eviction order (the LRU and FIFO lists and both SLRU lists are the old
\* lists without k, so each key keeps its segment; each Clock entry keeps its
\* slot and reference bit and the hand stays), which is what the next
\* evictions choose their victims from.
C34_DeleteFrame ==
  [][(last'.op = "Delete" /\ last'.found)
     => LET k == last'.key
            Without(seq) == SelectSeq(seq, LAMBDA x : x # k)
        IN /\ k \in DOMAIN Cache.items
           /\ DOMAIN Cache'.items = DOMAIN Cache.items \ {k}
           /\ last'.evicted = {}
           /\ \A j \in DOMAIN Cache'.items :
                Cache_Peek(policy, Cache', j).value = Cache_Peek(policy, Cache, j).value
           /\ policy = "lru" => LRU_List(lru') = Without(LRU_List(lru))
           /\ policy = "fifo" => FIFO_List(fifo') = Without(FIFO_List(fifo))
           /\ policy = "slru" =>
                /\ SLRU_Probation(slru') = Without(SLRU_Probation(slru))
                /\ SLRU_Protected(slru') = Without(SLRU_Protected(slru))
                /\ slru'.probationLen = Len(SLRU_Probation(slru'))
                /\ slru'.protectedLen = Len(SLRU_Protected(slru'))
           /\ policy = "clock" =>
                /\ clock'.hand = clock.hand
                /\ clock'.ring[clock.items[k]].nil
                /\ \A i \in DOMAIN clock.ring :
                     i # clock.items[k] => clock'.ring[i] = clock.ring[i]
                /\ \A j \in DOMAIN clock'.items : clock'.items[j] = clock.items[j]]_vars

\* C34 witness: a Delete has removed a present key of an SLRU cache that
\* still holds an entry on each list.
C34_Witness ==
  /\ policy = "slru" /\ last.op = "Delete" /\ last.found
  /\ last.key \notin DOMAIN slru.items
  /\ Len(SLRU_Probation(slru)) >= 1 /\ Len(SLRU_Protected(slru)) >= 1

\* C35: linked-list well-formedness (LRU and FIFO).  In every reachable state
\* the sentinels are linked to each other when the cache is empty; every
\* pointer of a node on the heap leads to a node on the heap, prev is the
\* exact inverse of next, following next from head passes each stored node
\* exactly once and ends at tail; the nodes on the list are exactly the nodes
\* of the index, each under its own key, so Len() is the list length.
C35_ListWellFormed ==
  LET WellFormed(c, head, tail, list) ==
        LET inner == DOMAIN c.nodes \ {head, tail}
        IN /\ {head, tail} \subseteq DOMAIN c.nodes
           /\ c.nodes[head].prev = Nil /\ c.nodes[tail].next = Nil
           /\ \A n \in DOMAIN c.nodes \ {tail} : c.nodes[n].next \in DOMAIN c.nodes \ {head}
           /\ \A n \in DOMAIN c.nodes \ {head} : c.nodes[n].prev \in DOMAIN c.nodes \ {tail}
           /\ \A n \in DOMAIN c.nodes \ {tail} : c.nodes[c.nodes[n].next].prev = n
           /\ \A n \in DOMAIN c.nodes \ {head} : c.nodes[c.nodes[n].prev].next = n
           /\ DOMAIN c.items = {} =>
                c.nodes[head].next = tail /\ c.nodes[tail].prev = head
           /\ inner = {c.items[k] : k \in DOMAIN c.items}
           /\ \A k \in DOMAIN c.items : c.nodes[c.items[k]].key = k
           /\ Len(list) = Cardinality(inner)
           /\ Range(list) = DOMAIN c.items
           /\ Len(list) = Cardinality(DOMAIN c.items)
  IN /\ WellFormed(lru, LRU_head, LRU_tail, LRU_List(lru))
     /\ LRU_Len(lru) = Len(LRU_List(lru))
     /\ WellFormed(fifo, FIFO_head, FIFO_tail, FIFO_List(fifo))
     /\ FIFO_Len(fifo) = Len(FIFO_List(fifo))

\* C35 witness: a Get has moved the last of two LRU nodes to the head of
\* the list.
C35_Witness ==
  /\ policy = "lru" /\ last.op = "Get" /\ last.found
  /\ Len(LRU_List(lru)) = 2 /\ LRU_List(lru)[1] = last.key
  /\ lru.nodes[LRU_tail].prev # lru.items[last.key]

\* C36: Clock index/ring consistency.  For capacity >= 1, in every reachable
\* state the index maps key k to slot i exactly when slot i holds an entry
\* with key k, no key is in two slots, and size, the number of index entries
\* and the number of occupied slots are equal.
C36_IndexRing ==
  (policy = "clock" /\ clock.capacity >= 1)
    => LET occupied == {i \in DOMAIN clock.ring : ~clock.ring[i].nil}
       IN /\ DOMAIN clock.ring = 0..(clock.capacity - 1)
          /\ \A k \in DOMAIN clock.items :
               clock.items[k] \in occupied /\ clock.ring[clock.items[k]].key = k
          /\ \A i \in occupied :
               /\ clock.ring[i].key \in DOMAIN clock.items
               /\ clock.items[clock.ring[i].key] = i
          /\ \A i, j \in occupied : clock.ring[i].key = clock.ring[j].key => i = j
          /\ clock.size = Cardinality(DOMAIN clock.items)
          /\ clock.size = Cardinality(occupied)
          /\ clock.size = Clock_Len(clock)

\* C36 witness: a Delete has emptied the first slot of a ring of two slots
\* and the index holds only the key of the second slot.
C36_Witness ==
  /\ policy = "clock" /\ clock.capacity = 2
  /\ last.op = "Delete" /\ last.found
  /\ clock.ring[0].nil /\ ~clock.ring[1].nil
  /\ DOMAIN clock.items = {clock.ring[1].key}

\* C37: SLRU bookkeeping consistency.  In every reachable state each stored
\* node is on exactly one of the two lists, once, and its segment tag names
\* that list; probationLen and protectedLen are the lengths of the two lists;
\* and their sum is the number of index entries, which Len() returns.
C37_SLRUBookkeeping ==
  LET prob == SLRU_Probation(slru)
      prot == SLRU_Protected(slru)
  IN /\ Range(prob) \cap Range(prot) = {}
     /\ Range(prob) \cup Range(prot) = DOMAIN slru.items
     /\ Len(prob) = Cardinality(Range(prob))
     /\ Len(prot) = Cardinality(Range(prot))
     /\ \A k \in DOMAIN slru.items :
          /\ slru.items[k] \in DOMAIN slru.nodes
          /\ slru.nodes[slru.items[k]].key = k
          /\ slru.nodes[slru.items[k]].segment =
               IF k \in Range(prot) THEN protected ELSE probation
     /\ slru.probationLen = Len(prob)
     /\ slru.protectedLen = Len(prot)
     /\ slru.probationLen + slru.protectedLen = Cardinality(DOMAIN slru.items)
     /\ SLRU_Len(slru) = slru.probationLen + slru.protectedLen

\* C37 witness: a Set has updated the protected entry of an SLRU cache that
\* holds one protected and two probation entries.
C37_Witness ==
  /\ policy = "slru" /\ last.op = "Set" /\ last.found
  /\ last.key \in ProtectedKeys(slru)
  /\ slru.protectedLen = 1 /\ slru.probationLen = 2 /\ SLRU_Len(slru) = 3

\* C38: SLRU without Get behaves as a small LRU.  Under Set, Peek, Delete and
\* Len alone an SLRU cache returns what an LRU cache of capacity probationCap
\* returns for the same calls and evicts the same keys: after every call both
\* hold the same keys with the same values in the same recency order, the
\* protected segment is empty, and Len() is at most probationCap.
C38_NoGetIsLRU ==
  [][LET k == last'.key
         lruEvicted == (DOMAIN lru.items \cup {k}) \ DOMAIN lru'.items
     IN /\ last'.op = "Set" => last'.evicted = lruEvicted
        /\ last'.op = "Peek" => /\ last'.value = LRU_Peek(lru, k).value
                                /\ last'.found = LRU_Peek(lru, k).found
        /\ last'.op = "Delete" => last'.found = LRU_Delete(lru, k).found
        /\ last'.op = "Len" => last'.value = LRU_Len(lru)
        /\ DOMAIN slru'.items = DOMAIN lru'.items
        /\ \A j \in Keys : /\ SLRU_Peek(slru', j).value = LRU_Peek(lru', j).value
                           /\ SLRU_Peek(slru', j).found = LRU_Peek(lru', j).found
        /\ SLRU_Probation(slru') = LRU_List(lru')
        /\ SLRU_Protected(slru') = <<>>
        /\ SLRU_Len(slru') = LRU_Len(lru')
        /\ SLRU_Len(slru') <= slru'.probationCap]_vars

\* C38 witness: with Get never called, a Set of a new key into a full
\* probation segment of two entries has evicted one key, the same one the
\* LRU cache evicted.
C38_Witness ==
  /\ policy = "noget" /\ last.op = "Set" /\ ~last.found
  /\ Cardinality(last.evicted) = 1 /\ last.key \notin last.evicted
  /\ slru.probationCap = 2 /\ SLRU_Len(slru) = 2
  /\ LRU_List(lru) = SLRU_Probation(slru)
  /\ last.evicted \cap DOMAIN lru.items = {}

\* C39: Clock hand validity.  For capacity >= 1 the hand is a ring position,
\* 0 <= hand < capacity, before and after every call.  Only a Set of an absent
\* key moves it: that call advances it at least once, one position modulo
\* capacity per advance (once per slot given a second chance and once per
\* slot probed for a free place); Get, Peek, Delete, Len and a Set of a
\* present key leave it where it was.
C39_HandValidity ==
  [][policy = "clock" /\ clock.capacity >= 1 =>
       LET advances == (IF last'.swept >= 1 THEN last'.swept - 1 ELSE 0) + last'.probed
       IN /\ clock.hand \in 0..(clock.capacity - 1)
          /\ clock'.hand \in 0..(clock'.capacity - 1)
          /\ IF last'.op = "Set" /\ ~last'.found
             THEN /\ advances >= 1
                  /\ clock'.hand = (clock.hand + advances) % clock.capacity
             ELSE clock'.hand = clock.hand]_vars

\* C39 witness: on a ring of two slots a Set of an absent key has given one
\* slot a second chance, evicted the other and filled it, so the hand made
\* two advances and wrapped round to slot 0.
C39_Witness ==
  /\ policy = "clock" /\ clock.capacity = 2
  /\ last.op = "Set" /\ ~last.found
  /\ last.swept = 2 /\ last.probed = 1
  /\ Cardinality(last.evicted) = 1
  /\ clock.hand = 0 /\ SlotOf(clock, last.key) = 1

\* C40: SLRU victims are real entries.  demoteLRU runs in a Get of a probation
\* key that overfills the protected list, and then the protected list was
\* already non-empty: the entry demoted is the one that was at its tail, not
\* a sentinel and not the key the Get has just promoted.
\* evictFromProbation runs in a Set of an absent key that overfills the
\* probation list, and then the probation list was already non-empty: the
\* entry evicted is the one that was at its tail, not a sentinel and not the
\* key the Set has just inserted.  The four sentinels stay in place.
C40_RealVictims ==
  [][policy = "slru" =>
       LET k == last'.key
           demotes == /\ last'.op = "Get" /\ k \in ProbationKeys(slru)
                      /\ slru.protectedLen + 1 > slru.protectedCap
           evicts == /\ last'.op = "Set" /\ k \notin DOMAIN slru.items
                     /\ slru.probationLen + 1 > slru.probationCap
           Sentinels == {SLRU_probationHead, SLRU_probationTail,
                         SLRU_protectedHead, SLRU_protectedTail}
       IN /\ demotes =>
               /\ SLRU_Protected(slru) # <<>>
               /\ last'.demoted = {Last(SLRU_Protected(slru))}
               /\ NoKey \notin last'.demoted /\ k \notin last'.demoted
               /\ SLRU_Protected(slru')[1] = k
               /\ SLRU_Probation(slru')[1] \in last'.demoted
          /\ evicts =>
               /\ SLRU_Probation(slru) # <<>>
               /\ last'.evicted = {Last(SLRU_Probation(slru))}
               /\ NoKey \notin last'.evicted /\ k \notin last'.evicted
               /\ SLRU_Probation(slru')[1] = k
          /\ Sentinels \subseteq DOMAIN slru'.nodes
          /\ \A s \in Sentinels : slru'.nodes[s].key = NoKey
          /\ slru'.nodes[SLRU_probationHead].prev = Nil
          /\ slru'.nodes[SLRU_probationTail].next = Nil
          /\ slru'.nodes[SLRU_protectedHead].prev = Nil
          /\ slru'.nodes[SLRU_protectedTail].next = Nil]_vars

\* C40 witness: a Get of a probation key has overfilled a protected list of
\* capacity 1, and demoteLRU has moved the other protected key, not the one
\* just promoted, to the head of the probation list.
C40_Witness ==
  /\ policy = "slru" /\ last.op = "Get" /\ last.found
  /\ slru.protectedCap = 1
  /\ SLRU_Protected(slru) = <<last.key>>
  /\ Cardinality(last.demoted) = 1 /\ last.key \notin last.demoted
  /\ SLRU_Probation(slru) # <<>> /\ SLRU_Probation(slru)[1] \in last.demoted

====
